---- MODULE Spec2Model ----
(***************************************************************************)
(* Order / cart / inventory workflow of the pharmacy backend.              *)
(*                                                                         *)
(* The state is the content of the three MongoDB collections the handlers  *)
(* touch (drugs, carts, orders) and, for every request in flight, the      *)
(* handler's position and its local documents.  A handler is cut at its    *)
(* awaits: everything between two awaits runs without interleaving (one    *)
(* Node.js event loop), every awaited storage call is one atomic step.     *)
(* Amounts are in cents.                                                   *)
(***************************************************************************)
EXTENDS Integers, Sequences, FiniteSets, TLC

\* ---------------------------------------------------------------- bounds
MaxStock == 2
MaxQty == 1
MaxOps == 2
NumSlots == 2
MaxFaults == 1
MaxOrders == 2
MaxLineQty == 3
MaxPage == 2
MaxLimit == 2
MaxLiveOps == 2

\* ------------------------------------------------------------- universe
Products == {"A", "B"}
Customers == {"u1", "u2"}
Admin == "admin"
Users == Customers \cup {Admin}
Slots == 1..NumSlots

Role(u) == IF u = Admin THEN "admin" ELSE "user"

\* catalog price of a product, in cents (a seeded Drug document's price)
Price(p) == IF p = "A" THEN 1000 ELSE 2000

\* orderSchema.orderStatus enum
Statuses == {"pending", "confirmed", "processing", "shipped", "delivered",
             "cancelled", "returned"}

VARIABLES
  drugs,    \* Drug collection: product -> [stock, salesCount, isActive, price, prescriptionRequired]
  carts,    \* Cart collection: customer -> cart document (exists = FALSE: no document)
  orders,   \* Order collection: sequence of order documents, the index is the order id
  req,      \* request slot -> handler position and local documents
  started,  \* number of requests started so far
  faults,   \* number of storage calls that threw so far
  clock,    \* the value new Date() returns next
  stock0,   \* ghost: stock.quantity of every product in the initial state
  carts0,   \* ghost: the Cart collection in the initial state
  orders0   \* ghost: the Order collection in the initial state

vars == <<drugs, carts, orders, req, started, faults, clock, stock0, carts0, orders0>>

ghosts == <<stock0, carts0, orders0>>

\* ------------------------------------------------------------- helpers
RECURSIVE SumSeq(_)
SumSeq(s) == IF s = <<>> THEN 0 ELSE Head(s) + SumSeq(Tail(s))

MinOf(S) == CHOOSE x \in S : \A y \in S : x <= y

\* items.findIndex(item => item.drug === drugId): 0 when absent
FindIndex(items, p) ==
  LET hit == {i \in 1..Len(items) : items[i].drug = p}
  IN IF hit = {} THEN 0 ELSE MinOf(hit)

\* a cart line as the cart controller writes it
CartItem(p, q, pr) == [drug |-> p, quantity |-> q, price |-> pr, subtotal |-> pr * q]

\* cartSchema.pre('save'): totals from the lines as they are, then each
\* line's subtotal recomputed
CartPreSave(items) ==
  [exists |-> TRUE, v |-> 0, extra |-> 0,
   totalItems |-> SumSeq([i \in 1..Len(items) |-> items[i].quantity]),
   totalAmount |-> SumSeq([i \in 1..Len(items) |-> items[i].subtotal]),
   items |-> [i \in 1..Len(items) |->
               [items[i] EXCEPT !.subtotal = items[i].price * items[i].quantity]]]

\* no cart document; extra counts further cart documents of the customer
NoCart == [exists |-> FALSE, v |-> 0, extra |-> 0,
           totalItems |-> 0, totalAmount |-> 0, items |-> <<>>]

\* one line of the stored array after a save by position: only the fields
\* the handler changed on its copy are written
CartLineMerge(st, ld, lc) ==
  [drug |-> st.drug,
   quantity |-> IF lc.quantity # ld.quantity THEN lc.quantity ELSE st.quantity,
   price |-> IF lc.price # ld.price THEN lc.price ELSE st.price,
   subtotal |-> IF lc.subtotal # ld.subtotal THEN lc.subtotal ELSE st.subtotal]

\* the lines of the copy that differ from the lines loaded at their position
CartChangedLines(loaded, local) ==
  {j \in 1..Len(loaded.items) :
     j <= Len(local.items) /\ local.items[j] # loaded.items[j]}

\* cart.save() is conditioned on the version the cart was loaded with when
\* the items array was assigned or spliced (whole) or a line was changed in
\* place; a push alone is not
CartSaveConflict(stored, loaded, local0, whole) ==
  LET local == CartPreSave(local0.items)
  IN /\ whole \/ CartChangedLines(loaded, local) # {}
     /\ stored.v # loaded.v

\* the stored cart after cart.save() of the copy local0 of the cart loaded:
\* pre-save hook, then the modified paths are written; an assigned or
\* spliced array replaces the stored one, pushed lines are appended to it,
\* both increment the version
CartSave(stored, loaded, local0, whole) ==
  LET local == CartPreSave(local0.items)
      pushed == IF Len(local.items) > Len(loaded.items)
                  THEN SubSeq(local.items, Len(loaded.items) + 1, Len(local.items))
                  ELSE <<>>
      merged == [j \in 1..Len(stored.items) |->
                  IF j <= Len(loaded.items) /\ j <= Len(local.items)
                    THEN CartLineMerge(stored.items[j], loaded.items[j], local.items[j])
                    ELSE stored.items[j]]
  IN [stored EXCEPT
        !.items = IF whole THEN local.items ELSE merged \o pushed,
        !.totalItems = IF local.totalItems # loaded.totalItems
                         THEN local.totalItems ELSE @,
        !.totalAmount = IF local.totalAmount # loaded.totalAmount
                          THEN local.totalAmount ELSE @,
        !.v = IF whole \/ pushed # <<>> THEN @ + 1 ELSE @]

CartUserTakenNever(cs, u) == FALSE

\* unique index on user: a second cart document of a customer is rejected
CartUserTaken(cs, u) == cs[u].exists

\* the Cart collection after the insert of a new, empty cart of customer u
CartInsert(cs, u) ==
  IF cs[u].exists THEN [cs EXCEPT ![u].extra = @ + 1]
  ELSE [cs EXCEPT ![u] = CartPreSave(<<>>)]

InsufficientStockNever(drug, quantity) == FALSE

\* drug.stock.quantity < quantity
InsufficientStock(drug, quantity) == drug.stock < quantity

\* ------------------------------------------------- populate projections
\* (mutant) the select list with isActive among the selected paths
CreateOrderSelectWithActive ==
  {"name", "price", "stock", "prescriptionRequired", "isActive"}

\* select list of createOrder's populate('items.drug', ...)
CreateOrderSelect == {"name", "price", "stock", "prescriptionRequired"}

\* A populated drug holds the selected paths only; a path that was not
\* selected reads as undefined (falsy): no schema default is applied to it.
Populate(p, select) ==
  [drug |-> p,
   price |-> IF "price" \in select THEN drugs[p].price ELSE 0,
   stock |-> IF "stock" \in select THEN drugs[p].stock ELSE 0,
   prescriptionRequired |-> "prescriptionRequired" \in select
                            /\ drugs[p].prescriptionRequired,
   isActive |-> "isActive" \in select /\ drugs[p].isActive]

NoSnap == [p \in Products |->
            [drug |-> p, price |-> 0, stock |-> 0,
             prescriptionRequired |-> FALSE, isActive |-> FALSE]]

\* --------------------------------------------------------------- orders
\* order numbers the pre-save hook can generate (timestamp and random digits)
OrderNumbers == 1..MaxOrders

NoOrder == [orderNumber |-> 0,
            user |-> "none", items |-> <<>>, orderStatus |-> "none",
            statusHistory |-> <<>>, cancellationReason |-> "none",
            actualDeliveryDate |-> 0, requiresPrescription |-> FALSE,
            orderSummary |-> [subtotal |-> 0, tax |-> 0, shipping |-> 0,
                              discount |-> 0, total |-> 0]]

ItemCheckLax(item, snap) == "ok"

\* createOrder's validation of one cart line against its populated drug
ItemCheck(item, snap) ==
  IF ~snap[item.drug].isActive THEN "unavailable"
  ELSE IF snap[item.drug].stock < item.quantity THEN "insufficient"
  ELSE "ok"

\* result of the validation loop: the first failing line decides
ValidateItems(items, snap) ==
  LET bad == {i \in 1..Len(items) : ItemCheck(items[i], snap) # "ok"}
  IN IF bad = {} THEN "ok" ELSE ItemCheck(items[MinOf(bad)], snap)

BuildOrderItemsCartPrice(items, snap) ==
  [i \in 1..Len(items) |->
    [drug |-> items[i].drug,
     quantity |-> items[i].quantity,
     price |-> items[i].price,
     subtotal |-> items[i].price * items[i].quantity,
     prescriptionRequired |-> snap[items[i].drug].prescriptionRequired]]

\* orderItems.push({...}) for every cart line
BuildOrderItems(items, snap) ==
  [i \in 1..Len(items) |->
    [drug |-> items[i].drug,
     quantity |-> items[i].quantity,
     price |-> snap[items[i].drug].price,
     subtotal |-> snap[items[i].drug].price * items[i].quantity,
     prescriptionRequired |-> snap[items[i].drug].prescriptionRequired]]

\* orderSchema.pre('save') #1, first part: an order without orderNumber gets
\* the generated number n
OrderPreSaveNumber(o, n) ==
  IF o.orderNumber = 0 THEN [o EXCEPT !.orderNumber = n] ELSE o

AnyPrescriptionAll(items) ==
  \A i \in 1..Len(items) : items[i].prescriptionRequired

\* this.items.some(item => item.prescriptionRequired)
AnyPrescription(items) ==
  \E i \in 1..Len(items) : items[i].prescriptionRequired

OrderPreSaveTotalsNoShipping(o) ==
  LET sub == SumSeq([i \in 1..Len(o.items) |-> o.items[i].subtotal])
  IN [o EXCEPT
       !.orderSummary = [@ EXCEPT !.subtotal = sub,
                                  !.total = sub + o.orderSummary.tax
                                                - o.orderSummary.discount]]

\* orderSchema.pre('save') #1, second part: requiresPrescription and totals
OrderPreSaveTotals(o) ==
  LET sub == SumSeq([i \in 1..Len(o.items) |-> o.items[i].subtotal])
  IN [o EXCEPT
       !.requiresPrescription = AnyPrescription(o.items),
       !.orderSummary = [@ EXCEPT !.subtotal = sub,
                                  !.total = sub + o.orderSummary.tax + o.orderSummary.shipping
                                                - o.orderSummary.discount]]

\* const tax = subtotal * 0.08 (amounts in cents)
Tax(subtotal) == (subtotal * 8) \div 100

ShippingFreeFrom(subtotal) == IF subtotal >= 5000 THEN 0 ELSE 599

\* const shipping = subtotal > 50 ? 0 : 5.99
Shipping(subtotal) == IF subtotal > 5000 THEN 0 ELSE 599

\* orderData of createOrder, with the schema defaults (status pending,
\* discount 0); subtotal accumulated in the loop
BuildOrderData(u, items, snap) ==
  LET orderItems == BuildOrderItems(items, snap)
      subtotal == SumSeq([i \in 1..Len(orderItems) |-> orderItems[i].subtotal])
      tax == Tax(subtotal)
      shipping == Shipping(subtotal)
  IN [orderNumber |-> 0,
      user |-> u, items |-> orderItems, orderStatus |-> "pending",
      statusHistory |-> <<>>, cancellationReason |-> "none",
      actualDeliveryDate |-> 0,
      requiresPrescription |-> \E i \in 1..Len(items) :
                                  snap[items[i].drug].prescriptionRequired,
      orderSummary |-> [subtotal |-> subtotal, tax |-> tax, shipping |-> shipping,
                        discount |-> 0, total |-> subtotal + tax + shipping]]

\* ------------------------------------------------------------- requests
\* the pagination metadata of a response without any
NoPagination == [currentPage |-> 0, totalPages |-> 0, totalItems |-> 0,
                 itemsPerPage |-> 0, hasNextPage |-> FALSE, hasPrevPage |-> FALSE,
                 nextPage |-> 0, prevPage |-> 0]

customPaginatedResponseInclusive(page, limit, totalItems) ==
  LET totalPages == (totalItems + limit - 1) \div limit
      hasNextPage == page <= totalPages
      hasPrevPage == page > 1
  IN [currentPage |-> page, totalPages |-> totalPages, totalItems |-> totalItems,
      itemsPerPage |-> limit, hasNextPage |-> hasNextPage, hasPrevPage |-> hasPrevPage,
      nextPage |-> IF hasNextPage THEN page + 1 ELSE 0,
      prevPage |-> IF hasPrevPage THEN page - 1 ELSE 0]

\* meta.pagination of customPaginatedResponse; Math.ceil of the quotient of
\* two non-negative integers; null is written 0, which no page number is
customPaginatedResponse(page, limit, totalItems) ==
  LET totalPages == (totalItems + limit - 1) \div limit
      hasNextPage == page < totalPages
      hasPrevPage == page > 1
  IN [currentPage |-> page, totalPages |-> totalPages, totalItems |-> totalItems,
      itemsPerPage |-> limit, hasNextPage |-> hasNextPage, hasPrevPage |-> hasPrevPage,
      nextPage |-> IF hasNextPage THEN page + 1 ELSE 0,
      prevPage |-> IF hasPrevPage THEN page - 1 ELSE 0]

\* the statistics of a getOrderStatistics response not yet computed
NoStats == [totalOrders |-> 0,
            ordersByStatus |-> [s \in Statuses |-> [count |-> 0, totalAmount |-> 0]],
            totalRevenue |-> 0,
            topSellingDrugs |-> [p \in Products |-> 0]]

IdleReq == [op |-> "idle", pc |-> "idle", user |-> "none", oid |-> 0,
            status |-> "none", drug |-> "none", qty |-> 0, operation |-> "none",
            cart |-> NoCart, loaded |-> NoCart, snap |-> NoSnap,
            base |-> NoOrder, order |-> NoOrder, i |-> 0, resp |-> "none",
            \* ghosts: the orderStatus the handler read, and the net stock
            \* adjustment the handler has applied per product
            seen |-> "none", adj |-> [p \in Products |-> 0],
            \* ghost: the handler has cleared the cart; the order ids a read
            \* handler returned
            cleared |-> FALSE, got |-> {},
            \* getOrderStatistics: the date range (0: not given), the queries
            \* not yet answered, the statistics
            startDate |-> 0, endDate |-> 0, todo |-> {}, stats |-> NoStats,
            \* getMyOrders: page and limit of the query, the number of
            \* documents counted, the pagination metadata of the response
            page |-> 0, limit |-> 0, totalDocs |-> 0, pagination |-> NoPagination]

\* a handler that writes its response without returning: the call stays open
RespondSeenLost(r, code, seen) ==
  req' = [req EXCEPT ![r] = [req[r] EXCEPT !.resp = code, !.seen = seen]]

\* the handler returns a response; its local documents are dropped
RespondSeen(r, code, seen) ==
  req' = [req EXCEPT ![r] = [IdleReq EXCEPT !.op = req[r].op, !.pc = "done",
                                            !.user = req[r].user, !.oid = req[r].oid,
                                            !.status = req[r].status,
                                            !.drug = req[r].drug, !.qty = req[r].qty,
                                            !.operation = req[r].operation,
                                            !.startDate = req[r].startDate,
                                            !.endDate = req[r].endDate,
                                            !.stats = req[r].stats,
                                            !.page = req[r].page,
                                            !.limit = req[r].limit,
                                            !.resp = code,
                                            !.seen = seen, !.adj = req[r].adj,
                                            !.cleared = req[r].cleared]]

Respond(r, code) == RespondSeen(r, code, req[r].seen)

\* a new request is taken by the first free worker
CanStart(r) ==
  /\ req[r].op = "idle"
  /\ \A k \in Slots : k < r => req[k].op # "idle"
  /\ started < MaxOps

\* --------------------------------------------------------- order saves
\* (mutant) an order that has left the warehouse still counts as cancellable
NotAuthorizedNever(o, u) == FALSE

\* order.user.toString() !== req.user.id && req.user.role !== 'admin'
NotAuthorized(o, u) == o.user # u /\ Role(u) # "admin"

canBeCancelledLate(o) == o.orderStatus \in {"pending", "confirmed", "processing", "shipped"}

\* orderSchema.virtual('canBeCancelled')
canBeCancelled(o) == o.orderStatus \in {"pending", "confirmed"}

HistoryEntry(s, by) == [status |-> s, updatedBy |-> by]

\* orderSchema.pre('save') #2: one more history entry when orderStatus is
\* modified with respect to the loaded document
OrderPreSaveHistory(base, o) ==
  IF o.orderStatus # base.orderStatus
    THEN [o EXCEPT !.statusHistory = Append(@, HistoryEntry(o.orderStatus, "none"))]
    ELSE o

OrderPreSaveRepriced(base, o, n) ==
  LET lines == [i \in 1..Len(o.items) |->
                 [o.items[i] EXCEPT
                    !.price = drugs[o.items[i].drug].price,
                    !.subtotal = drugs[o.items[i].drug].price * o.items[i].quantity]]
  IN OrderPreSaveHistory(base,
       OrderPreSaveTotals(OrderPreSaveNumber([o EXCEPT !.items = lines], n)))

\* both pre-save hooks, in registration order; n is the order number the
\* first hook would generate
OrderPreSave(base, o, n) ==
  OrderPreSaveHistory(base, OrderPreSaveTotals(OrderPreSaveNumber(o, n)))

\* new Order(orderData): the paths orderData does not set hold their schema
\* defaults and do not count as modified
NewOrderDoc == [NoOrder EXCEPT !.orderStatus = "pending"]

\* the document Order.create(orderData) inserts, after the pre-save hooks
OrderCreateDoc(orderData, n) == OrderPreSave(NewOrderDoc, orderData, n)

OrderNumberTakenNever(os, n) == FALSE

\* unique index on orderNumber: an insert with a number in use is rejected
OrderNumberTaken(os, n) == \E k \in 1..Len(os) : os[k].orderNumber = n

\* document.save() of a loaded order: only the modified paths are written
\* ($set), and entries pushed to statusHistory are appended ($push) to the
\* stored array; the update is conditioned on _id only
OrderSave(stored, base, o) ==
  [stored EXCEPT
     !.orderNumber = IF o.orderNumber # base.orderNumber THEN o.orderNumber ELSE @,
     !.orderStatus = IF o.orderStatus # base.orderStatus THEN o.orderStatus ELSE @,
     !.cancellationReason = IF o.cancellationReason # base.cancellationReason
                            THEN o.cancellationReason ELSE @,
     !.actualDeliveryDate = IF o.actualDeliveryDate # base.actualDeliveryDate
                            THEN o.actualDeliveryDate ELSE @,
     !.requiresPrescription = IF o.requiresPrescription # base.requiresPrescription
                              THEN o.requiresPrescription ELSE @,
     !.orderSummary = IF o.orderSummary # base.orderSummary THEN o.orderSummary ELSE @,
     !.statusHistory = @ \o SubSeq(o.statusHistory, Len(base.statusHistory) + 1,
                                   Len(o.statusHistory))]

\* orderSchema.methods.updateStatus, up to the save
updateStatus(o, newStatus, updatedBy) ==
  [o EXCEPT !.orderStatus = newStatus,
            !.statusHistory = Append(@, HistoryEntry(newStatus, updatedBy))]

\* orderSchema.methods.cancelOrder, up to the save (the caller has checked
\* canBeCancelled on the same document)
cancelOrderDoc(o, reason, cancelledBy) ==
  [o EXCEPT !.orderStatus = "cancelled",
            !.cancellationReason = reason,
            !.statusHistory = Append(@, HistoryEntry("cancelled", cancelledBy))]

\* ---------------------------------------------------------- createOrder
StartCreateOrder(r) ==
  /\ CanStart(r)
  /\ \E u \in Customers :
       req' = [req EXCEPT ![r] = [IdleReq EXCEPT !.op = "createOrder",
                                                 !.pc = "findCart", !.user = u]]
  /\ started' = started + 1
  /\ UNCHANGED <<drugs, carts, orders, faults, clock, ghosts>>

CreateOrder(r) ==
  /\ req[r].op = "createOrder"
  /\ UNCHANGED <<started, faults, clock, ghosts>>
  /\ CASE req[r].pc = "findCart" ->
            \* Cart.findOne({user, isActive: true})
            /\ req' = [req EXCEPT ![r].cart = carts[req[r].user], ![r].pc = "populate"]
            /\ UNCHANGED <<drugs, carts, orders>>
       [] req[r].pc = "populate" ->
            \* .populate('items.drug', select), then the synchronous checks
            LET snap == [p \in Products |-> Populate(p, CreateOrderSelect)]
                cart == req[r].cart
                verdict == ValidateItems(cart.items, snap)
            IN /\ IF ~cart.exists \/ Len(cart.items) = 0
                    THEN Respond(r, "400 cart empty")
                  ELSE IF verdict = "unavailable"
                    THEN Respond(r, "400 unavailable")
                  ELSE IF verdict = "insufficient"
                    THEN Respond(r, "400 insufficient stock")
                  ELSE req' = [req EXCEPT
                                 ![r].snap = snap,
                                 ![r].order = BuildOrderData(req[r].user, cart.items, snap),
                                 ![r].pc = "create"]
               /\ UNCHANGED <<drugs, carts, orders>>
       [] req[r].pc = "create" ->
            \* Order.create(orderData): pre-save hooks, then insert
            /\ Len(orders) < MaxOrders
            /\ \E n \in OrderNumbers :
              LET doc == OrderCreateDoc(req[r].order, n)
              IN /\ IF OrderNumberTaken(orders, n)
                      THEN /\ Respond(r, "500")
                           /\ orders' = orders
                      ELSE /\ orders' = Append(orders, doc)
                           /\ req' = [req EXCEPT ![r].oid = Len(orders) + 1,
                                                 ![r].order = doc,
                                                 ![r].i = 1, ![r].pc = "decrement"]
                 /\ UNCHANGED <<drugs, carts>>
       [] req[r].pc = "decrement" ->
            \* Drug.findByIdAndUpdate(item.drug, {$inc: ...}) for line i
            LET item == req[r].order.items[req[r].i]
            IN /\ drugs' = [drugs EXCEPT ![item.drug].stock = @ - item.quantity,
                                         ![item.drug].salesCount = @ + item.quantity]
               /\ req' = [req EXCEPT ![r].i = @ + 1,
                                     ![r].adj[item.drug] = @ - item.quantity,
                                     ![r].pc = IF req[r].i = Len(req[r].order.items)
                                               THEN "clearCart" ELSE "decrement"]
               /\ UNCHANGED <<carts, orders>>
       [] req[r].pc = "clearCart" ->
            \* cart.items = []; cart.save(): the whole array is replaced, which
            \* the save conditions on the version the cart was loaded with
            /\ IF carts[req[r].user].v = req[r].cart.v
                 THEN /\ carts' = [carts EXCEPT ![req[r].user] =
                                     [CartPreSave(<<>>) EXCEPT !.v = req[r].cart.v + 1]]
                      /\ req' = [req EXCEPT ![r].cleared = TRUE, ![r].pc = "respond"]
                 ELSE /\ Respond(r, "500")
                      /\ carts' = carts
            /\ UNCHANGED <<drugs, orders>>
       [] req[r].pc = "respond" ->
            \* order.populate(...), createdResponse
            /\ Respond(r, "201 created")
            /\ UNCHANGED <<drugs, carts, orders>>
       [] OTHER -> FALSE

\* ---------------------------------------------------------- cancelOrder
StartCancelOrder(r) ==
  /\ CanStart(r)
  /\ \E u \in Users, id \in 1..(Len(orders) + 1) :
       req' = [req EXCEPT ![r] = [IdleReq EXCEPT !.op = "cancelOrder",
                                                 !.pc = "findOrder",
                                                 !.user = u, !.oid = id]]
  /\ started' = started + 1
  /\ UNCHANGED <<drugs, carts, orders, faults, clock, ghosts>>

CancelOrder(r) ==
  /\ req[r].op = "cancelOrder"
  /\ UNCHANGED <<carts, started, faults, clock, ghosts>>
  /\ CASE req[r].pc = "findOrder" ->
            \* Order.findById, then the ownership and canBeCancelled checks
            /\ IF req[r].oid > Len(orders)
                 THEN Respond(r, "404")
               ELSE IF NotAuthorized(orders[req[r].oid], req[r].user)
                 THEN RespondSeen(r, "400 not authorized", orders[req[r].oid].orderStatus)
               ELSE IF ~canBeCancelled(orders[req[r].oid])
                 THEN RespondSeen(r, "400 cannot cancel", orders[req[r].oid].orderStatus)
               ELSE req' = [req EXCEPT
                              ![r].seen = orders[req[r].oid].orderStatus,
                              ![r].base = orders[req[r].oid],
                              ![r].order = cancelOrderDoc(orders[req[r].oid],
                                                          "cancelled by customer",
                                                          req[r].user),
                              ![r].pc = "save"]
            /\ UNCHANGED <<drugs, orders>>
       [] req[r].pc = "save" ->
            \* this.save() inside order.cancelOrder
            \E n \in OrderNumbers :
            LET o == OrderPreSave(req[r].base, req[r].order, n)
            IN /\ orders' = [orders EXCEPT ![req[r].oid] = OrderSave(@, req[r].base, o)]
               /\ req' = [req EXCEPT ![r].order = o, ![r].base = o, ![r].i = 1,
                                     ![r].pc = IF Len(o.items) = 0
                                               THEN "respond" ELSE "restore"]
               /\ drugs' = drugs
       [] req[r].pc = "restore" ->
            \* Drug.findByIdAndUpdate(item.drug, {$inc: ...}) for line i
            LET item == req[r].order.items[req[r].i]
            IN /\ drugs' = [drugs EXCEPT ![item.drug].stock = @ + item.quantity,
                                         ![item.drug].salesCount = @ - item.quantity]
               /\ IF req[r].i = Len(req[r].order.items)
                    THEN req' = [req EXCEPT ![r] =
                           [IdleReq EXCEPT !.op = req[r].op, !.pc = "done",
                                           !.user = req[r].user, !.oid = req[r].oid,
                                           !.resp = "200", !.seen = req[r].seen,
                                           !.adj = [req[r].adj EXCEPT
                                                      ![item.drug] = @ + item.quantity]]]
                    ELSE req' = [req EXCEPT ![r].i = @ + 1,
                                            ![r].adj[item.drug] = @ + item.quantity]
               /\ orders' = orders
       [] req[r].pc = "respond" ->
            /\ Respond(r, "200")
            /\ UNCHANGED <<drugs, orders>>
       [] OTHER -> FALSE

\* ---------------------------------------------------- updateOrderStatus
\* the status values a request body may carry: the seven of validStatuses
\* and one that is not among them
StatusInputs == Statuses \cup {"bogus"}

NeedsDeliveryStampAlways(o, status) == status = "delivered"

\* status === 'delivered' && !order.actualDeliveryDate
NeedsDeliveryStamp(o, status) == status = "delivered" /\ o.actualDeliveryDate = 0

StartUpdateOrderStatus(r) ==
  /\ CanStart(r)
  /\ \E id \in 1..(Len(orders) + 1), s \in StatusInputs :
       req' = [req EXCEPT ![r] = [IdleReq EXCEPT !.op = "updateOrderStatus",
                                                 !.pc = "findOrder", !.user = Admin,
                                                 !.oid = id, !.status = s]]
  /\ started' = started + 1
  /\ UNCHANGED <<drugs, carts, orders, faults, clock, ghosts>>

UpdateOrderStatus(r) ==
  /\ req[r].op = "updateOrderStatus"
  /\ UNCHANGED <<drugs, carts, started, faults, ghosts>>
  /\ CASE req[r].pc = "findOrder" ->
            \* Order.findById, then the validStatuses check and updateStatus
            /\ IF req[r].oid > Len(orders)
                 THEN Respond(r, "404")
               ELSE IF req[r].status \notin Statuses
                 THEN RespondSeen(r, "400 invalid status", orders[req[r].oid].orderStatus)
               ELSE req' = [req EXCEPT
                              ![r].seen = orders[req[r].oid].orderStatus,
                              ![r].base = orders[req[r].oid],
                              ![r].order = updateStatus(orders[req[r].oid],
                                                        req[r].status, req[r].user),
                              ![r].pc = "save"]
            /\ UNCHANGED <<orders, clock>>
       [] req[r].pc = "save" ->
            \* this.save() inside order.updateStatus, then the delivery stamp
            \E n \in OrderNumbers :
            LET o == OrderPreSave(req[r].base, req[r].order, n)
                stamp == NeedsDeliveryStamp(o, req[r].status)
            IN /\ orders' = [orders EXCEPT ![req[r].oid] = OrderSave(@, req[r].base, o)]
               /\ req' = [req EXCEPT
                            ![r].base = o,
                            ![r].order = IF stamp THEN [o EXCEPT !.actualDeliveryDate = clock]
                                         ELSE o,
                            ![r].pc = IF stamp THEN "saveDate" ELSE "respond"]
               /\ clock' = IF stamp THEN clock + 1 ELSE clock
       [] req[r].pc = "saveDate" ->
            \* order.save() after order.actualDeliveryDate = new Date()
            \E n \in OrderNumbers :
            LET o == OrderPreSave(req[r].base, req[r].order, n)
            IN /\ orders' = [orders EXCEPT ![req[r].oid] = OrderSave(@, req[r].base, o)]
               /\ req' = [req EXCEPT ![r].order = o, ![r].base = o, ![r].pc = "respond"]
               /\ clock' = clock
       [] req[r].pc = "respond" ->
            \* order.populate('user', ...), successResponse
            /\ Respond(r, "200")
            /\ UNCHANGED <<orders, clock>>
       [] OTHER -> FALSE

\* ------------------------------------------------------------ addToCart
\* all paths of a drug, as Drug.findOne returns them
AllPaths == {"name", "price", "stock", "prescriptionRequired", "isActive"}

AddToCartApplyOverwrite(r, cart) ==
  LET p == req[r].drug
      drug == req[r].snap[p]
      existingItemIndex == FindIndex(cart.items, p)
      newQuantity == req[r].qty
  IN IF existingItemIndex > 0
       THEN IF InsufficientStock(drug, newQuantity)
              THEN Respond(r, "400 cannot add")
              ELSE req' = [req EXCEPT
                     ![r].loaded = cart,
                     ![r].cart = [cart EXCEPT
                                    !.items[existingItemIndex].quantity = newQuantity,
                                    !.items[existingItemIndex].subtotal = drug.price * newQuantity],
                     ![r].i = existingItemIndex,
                     ![r].pc = "saveCart"]
       ELSE req' = [req EXCEPT
              ![r].loaded = cart,
              ![r].cart = [cart EXCEPT
                             !.items = Append(@, CartItem(p, req[r].qty, drug.price))],
              ![r].i = 0,
              ![r].pc = "saveCart"]

\* the synchronous part of addToCart once the cart is at hand: reject, or
\* change the local cart and go on to cart.save()
AddToCartApply(r, cart) ==
  LET p == req[r].drug
      drug == req[r].snap[p]
      existingItemIndex == FindIndex(cart.items, p)
      newQuantity == cart.items[existingItemIndex].quantity + req[r].qty
  IN IF existingItemIndex > 0
       THEN IF InsufficientStock(drug, newQuantity)
              THEN Respond(r, "400 cannot add")
              ELSE req' = [req EXCEPT
                     ![r].loaded = cart,
                     ![r].cart = [cart EXCEPT
                                    !.items[existingItemIndex].quantity = newQuantity,
                                    !.items[existingItemIndex].subtotal = drug.price * newQuantity],
                     ![r].i = existingItemIndex,
                     ![r].pc = "saveCart"]
       ELSE req' = [req EXCEPT
              ![r].loaded = cart,
              ![r].cart = [cart EXCEPT
                             !.items = Append(@, CartItem(p, req[r].qty, drug.price))],
              ![r].i = 0,
              ![r].pc = "saveCart"]

StartAddToCart(r) ==
  /\ CanStart(r)
  /\ \E u \in Customers, p \in Products, q \in 1..MaxQty :
       req' = [req EXCEPT ![r] = [IdleReq EXCEPT !.op = "addToCart", !.pc = "findDrug",
                                                 !.user = u, !.drug = p, !.qty = q]]
  /\ started' = started + 1
  /\ UNCHANGED <<drugs, carts, orders, faults, clock, ghosts>>

AddToCart(r) ==
  /\ req[r].op = "addToCart"
  /\ UNCHANGED <<drugs, orders, started, faults, clock, ghosts>>
  /\ CASE req[r].pc = "findDrug" ->
            \* Drug.findOne({_id: drugId, isActive: true}), then the stock check
            /\ IF ~drugs[req[r].drug].isActive
                 THEN Respond(r, "404")
               ELSE IF InsufficientStock(Populate(req[r].drug, AllPaths), req[r].qty)
                 THEN Respond(r, "400 insufficient stock")
               ELSE req' = [req EXCEPT
                              ![r].snap = [NoSnap EXCEPT
                                             ![req[r].drug] = Populate(req[r].drug, AllPaths)],
                              ![r].pc = "findCart"]
            /\ carts' = carts
       [] req[r].pc = "findCart" ->
            \* Cart.findOrCreateCart: this.findOne({user, isActive: true})
            /\ IF carts[req[r].user].exists
                 THEN AddToCartApply(r, carts[req[r].user])
                 ELSE req' = [req EXCEPT ![r].pc = "createCart"]
            /\ carts' = carts
       [] req[r].pc = "createCart" ->
            \* Cart.findOrCreateCart: new this({user}) and save(); the unique
            \* index on user rejects a second cart of the same customer
            IF CartUserTaken(carts, req[r].user)
              THEN /\ Respond(r, "500")
                   /\ carts' = carts
              ELSE /\ carts' = CartInsert(carts, req[r].user)
                   /\ AddToCartApply(r, CartPreSave(<<>>))
       [] req[r].pc = "saveCart" ->
            \* cart.save()
            LET u == req[r].user
            IN IF CartSaveConflict(carts[u], req[r].loaded, req[r].cart, FALSE)
                 THEN /\ Respond(r, "500")
                      /\ carts' = carts
                 ELSE /\ carts' = [carts EXCEPT
                                     ![u] = CartSave(@, req[r].loaded, req[r].cart, FALSE)]
                      /\ req' = [req EXCEPT ![r].pc = "respond"]
       [] req[r].pc = "respond" ->
            \* cart.populate(...), successResponse
            /\ Respond(r, "200")
            /\ carts' = carts
       [] OTHER -> FALSE

\* ------------------------------------------------- the other cart handlers
RemoveAtLast(items, i) == SubSeq(items, 1, Len(items) - 1)

\* items.splice(i, 1)
RemoveAt(items, i) == SubSeq(items, 1, i - 1) \o SubSeq(items, i + 1, Len(items))

\* a cart request of customer u about product p and quantity q, at its start
CartReq(op, u, p, q) ==
  [IdleReq EXCEPT !.op = op, !.pc = "findCart", !.user = u, !.drug = p, !.qty = q]

\* await cart.save() of the handler's copy, then on to the response
CartSaveStep(r, whole) ==
  LET u == req[r].user
  IN IF CartSaveConflict(carts[u], req[r].loaded, req[r].cart, whole)
       THEN /\ Respond(r, "500")
            /\ carts' = carts
       ELSE /\ carts' = [carts EXCEPT
                           ![u] = CartSave(@, req[r].loaded, req[r].cart, whole)]
            /\ req' = [req EXCEPT ![r].pc = "respond"]

\* ------------------------------------------------------- updateCartItem
StartUpdateCartItem(r) ==
  /\ CanStart(r)
  /\ \E u \in Customers, p \in Products, q \in 0..MaxQty :
       req' = [req EXCEPT ![r] = CartReq("updateCartItem", u, p, q)]
  /\ started' = started + 1
  /\ UNCHANGED <<drugs, carts, orders, faults, clock, ghosts>>

UpdateCartItem(r) ==
  /\ req[r].op = "updateCartItem"
  /\ UNCHANGED <<drugs, orders, started, faults, clock, ghosts>>
  /\ LET u == req[r].user
         p == req[r].drug
     IN CASE req[r].pc = "findCart" ->
               \* Cart.findOne, findIndex; quantity 0 splices the line out
               LET cart == carts[u]
                   itemIndex == FindIndex(cart.items, p)
               IN /\ carts' = carts
                  /\ IF ~cart.exists THEN Respond(r, "404 cart")
                     ELSE IF itemIndex = 0 THEN Respond(r, "404 item")
                     ELSE IF req[r].qty = 0
                       THEN req' = [req EXCEPT
                                      ![r].loaded = cart,
                                      ![r].cart = [cart EXCEPT
                                                     !.items = RemoveAt(@, itemIndex)],
                                      ![r].i = itemIndex,
                                      ![r].pc = "saveCart"]
                     ELSE req' = [req EXCEPT ![r].loaded = cart, ![r].cart = cart,
                                             ![r].i = itemIndex, ![r].pc = "findDrug"]
          [] req[r].pc = "findDrug" ->
               \* Drug.findOne({_id, isActive: true}), the stock check, then
               \* quantity, price and subtotal of the line are overwritten
               LET drug == Populate(p, AllPaths)
               IN /\ carts' = carts
                  /\ IF ~drugs[p].isActive THEN Respond(r, "400 unavailable")
                     ELSE IF InsufficientStock(drug, req[r].qty)
                       THEN Respond(r, "400 insufficient stock")
                     ELSE req' = [req EXCEPT
                                    ![r].snap = [NoSnap EXCEPT ![p] = drug],
                                    ![r].cart.items[req[r].i] =
                                       CartItem(p, req[r].qty, drug.price),
                                    ![r].pc = "saveCart"]
          [] req[r].pc = "saveCart" -> CartSaveStep(r, req[r].qty = 0)
          [] req[r].pc = "respond" -> Respond(r, "200") /\ carts' = carts
          [] OTHER -> FALSE

\* ------------------------------------------------------- removeFromCart
StartRemoveFromCart(r) ==
  /\ CanStart(r)
  /\ \E u \in Customers, p \in Products :
       req' = [req EXCEPT ![r] = CartReq("removeFromCart", u, p, 0)]
  /\ started' = started + 1
  /\ UNCHANGED <<drugs, carts, orders, faults, clock, ghosts>>

RemoveFromCart(r) ==
  /\ req[r].op = "removeFromCart"
  /\ UNCHANGED <<drugs, orders, started, faults, clock, ghosts>>
  /\ CASE req[r].pc = "findCart" ->
            LET cart == carts[req[r].user]
                itemIndex == FindIndex(cart.items, req[r].drug)
            IN /\ carts' = carts
               /\ IF ~cart.exists THEN Respond(r, "404 cart")
                  ELSE IF itemIndex = 0 THEN Respond(r, "404 item")
                  ELSE req' = [req EXCEPT
                                 ![r].loaded = cart,
                                 ![r].cart = [cart EXCEPT !.items = RemoveAt(@, itemIndex)],
                                 ![r].i = itemIndex,
                                 ![r].pc = "saveCart"]
       [] req[r].pc = "saveCart" -> CartSaveStep(r, TRUE)
       [] req[r].pc = "respond" -> Respond(r, "200") /\ carts' = carts
       [] OTHER -> FALSE

\* ------------------------------------------------------------ clearCart
StartClearCart(r) ==
  /\ CanStart(r)
  /\ \E u \in Customers :
       req' = [req EXCEPT ![r] = CartReq("clearCart", u, "none", 0)]
  /\ started' = started + 1
  /\ UNCHANGED <<drugs, carts, orders, faults, clock, ghosts>>

ClearCart(r) ==
  /\ req[r].op = "clearCart"
  /\ UNCHANGED <<drugs, orders, started, faults, clock, ghosts>>
  /\ CASE req[r].pc = "findCart" ->
            LET cart == carts[req[r].user]
            IN /\ carts' = carts
               /\ IF ~cart.exists THEN Respond(r, "404 cart")
                  ELSE req' = [req EXCEPT
                                 ![r].loaded = cart,
                                 ![r].cart = [cart EXCEPT !.items = <<>>],
                                 ![r].pc = "saveCart"]
       [] req[r].pc = "saveCart" ->
            \* assigning [] to an empty array modifies nothing
            CartSaveStep(r, Len(req[r].loaded.items) > 0)
       [] req[r].pc = "respond" -> Respond(r, "200") /\ carts' = carts
       [] OTHER -> FALSE

\* -------------------------------------------------------- fixCartIssues
\* one round of the loop: the line is dropped when its drug is not active,
\* otherwise it takes the catalog price and at most the stock (at least 1)
FixItem(item) ==
  LET drug == Populate(item.drug, AllPaths)
      quantity == IF item.quantity > drug.stock
                    THEN (IF drug.stock > 1 THEN drug.stock ELSE 1)
                    ELSE item.quantity
  IN IF ~drugs[item.drug].isActive THEN <<>>
     ELSE <<CartItem(item.drug, quantity, drug.price)>>

StartFixCartIssues(r) ==
  /\ CanStart(r)
  /\ \E u \in Customers :
       req' = [req EXCEPT ![r] = CartReq("fixCartIssues", u, "none", 0)]
  /\ started' = started + 1
  /\ UNCHANGED <<drugs, carts, orders, faults, clock, ghosts>>

FixCartIssues(r) ==
  /\ req[r].op = "fixCartIssues"
  /\ UNCHANGED <<drugs, orders, started, faults, clock, ghosts>>
  /\ CASE req[r].pc = "findCart" ->
            LET cart == carts[req[r].user]
            IN /\ carts' = carts
               /\ IF ~cart.exists THEN Respond(r, "404 cart")
                  ELSE req' = [req EXCEPT
                                 ![r].loaded = cart,
                                 ![r].cart = [cart EXCEPT !.items = <<>>],
                                 ![r].i = 1,
                                 ![r].pc = IF Len(cart.items) = 0 THEN "saveCart"
                                           ELSE "findDrug"]
       [] req[r].pc = "findDrug" ->
            \* Drug.findOne for line i, updatedItems.push(item)
            /\ carts' = carts
            /\ req' = [req EXCEPT
                         ![r].cart.items = @ \o FixItem(req[r].loaded.items[req[r].i]),
                         ![r].i = @ + 1,
                         ![r].pc = IF req[r].i = Len(req[r].loaded.items)
                                     THEN "saveCart" ELSE "findDrug"]
       [] req[r].pc = "saveCart" ->
            \* cart.items = updatedItems replaces the array when a line was
            \* dropped; otherwise the lines were changed in place
            CartSaveStep(r, Len(req[r].cart.items) # Len(req[r].loaded.items))
       [] req[r].pc = "respond" -> Respond(r, "200") /\ carts' = carts
       [] OTHER -> FALSE

\* --------------------------------------------------------- validateCart
StartValidateCart(r) ==
  /\ CanStart(r)
  /\ \E u \in Customers :
       req' = [req EXCEPT ![r] = CartReq("validateCart", u, "none", 0)]
  /\ started' = started + 1
  /\ UNCHANGED <<drugs, carts, orders, faults, clock, ghosts>>

\* Cart.findOne(...).populate(...), then the checks of every line; the
\* handler writes nothing
ValidateCart(r) ==
  /\ req[r].op = "validateCart"
  /\ UNCHANGED <<drugs, carts, orders, started, faults, clock, ghosts>>
  /\ CASE req[r].pc = "findCart" ->
            req' = [req EXCEPT ![r].loaded = carts[req[r].user],
                               ![r].pc = "populate"]
       [] req[r].pc = "populate" ->
            IF ~req[r].loaded.exists \/ Len(req[r].loaded.items) = 0
              THEN Respond(r, "400 cart empty")
              ELSE Respond(r, "200")
       [] OTHER -> FALSE

\* -------------------------------------------------------------- getCart
GetCartKeepsActive(item) == drugs[item.drug].isActive

\* item.drug && item.drug.isActive && item.drug.stock.quantity > 0
GetCartKeeps(item) ==
  drugs[item.drug].isActive /\ drugs[item.drug].stock > 0

StartGetCart(r) ==
  /\ CanStart(r)
  /\ \E u \in Customers :
       req' = [req EXCEPT ![r] = CartReq("getCart", u, "none", 0)]
  /\ started' = started + 1
  /\ UNCHANGED <<drugs, carts, orders, faults, clock, ghosts>>

GetCart(r) ==
  /\ req[r].op = "getCart"
  /\ UNCHANGED <<drugs, orders, started, faults, clock, ghosts>>
  /\ CASE req[r].pc = "findCart" ->
            \* Cart.findOne({user, isActive: true})
            /\ carts' = carts
            /\ req' = [req EXCEPT
                         ![r].loaded = carts[req[r].user],
                         ![r].cart = carts[req[r].user],
                         ![r].pc = IF carts[req[r].user].exists THEN "populate"
                                   ELSE "createCart"]
       [] req[r].pc = "createCart" ->
            \* Cart.create({user}); nothing to filter in the new cart
            IF CartUserTaken(carts, req[r].user)
              THEN /\ Respond(r, "500")
                   /\ carts' = carts
              ELSE /\ carts' = CartInsert(carts, req[r].user)
                   /\ Respond(r, "200")
       [] req[r].pc = "populate" ->
            \* .populate('items.drug', ...), then the filter
            LET activeItems == SelectSeq(req[r].loaded.items, GetCartKeeps)
            IN /\ carts' = carts
               /\ IF Len(activeItems) # Len(req[r].loaded.items)
                    THEN req' = [req EXCEPT ![r].cart.items = activeItems,
                                            ![r].pc = "saveCart"]
                    ELSE Respond(r, "200")
       [] req[r].pc = "saveCart" -> CartSaveStep(r, TRUE)
       [] req[r].pc = "respond" -> Respond(r, "200") /\ carts' = carts
       [] OTHER -> FALSE

\* ---------------------------------------------------- getOrder, getMyOrders
\* the handler answers with the orders in g
RespondGot(r, code, g) ==
  req' = [req EXCEPT ![r] = [IdleReq EXCEPT !.op = req[r].op, !.pc = "done",
                                            !.user = req[r].user, !.oid = req[r].oid,
                                            !.resp = code, !.got = g]]

StartGetOrder(r) ==
  /\ CanStart(r)
  /\ \E u \in Users, id \in 1..(Len(orders) + 1) :
       req' = [req EXCEPT ![r] = [IdleReq EXCEPT !.op = "getOrder", !.pc = "findOrder",
                                                 !.user = u, !.oid = id]]
  /\ started' = started + 1
  /\ UNCHANGED <<drugs, carts, orders, faults, clock, ghosts>>

GetOrder(r) ==
  /\ req[r].op = "getOrder"
  /\ req[r].pc = "findOrder"
  /\ IF req[r].oid > Len(orders) THEN RespondGot(r, "404", {})
     ELSE IF NotAuthorized(orders[req[r].oid], req[r].user)
       THEN RespondGot(r, "400 not authorized", {})
     ELSE RespondGot(r, "200", {req[r].oid})
  /\ UNCHANGED <<drugs, carts, orders, started, faults, clock, ghosts>>

\* req.query.status of getMyOrders ("none": not given)
StatusFilters == {"none", "pending"}

\* the orders matching query = {user, orderStatus?}, newest first
MyOrders(os, u, status) ==
  LET hit == {k \in 1..Len(os) :
                os[k].user = u /\ (status = "none" \/ os[k].orderStatus = status)}
      RECURSIVE Desc(_)
      Desc(S) == IF S = {} THEN <<>>
                 ELSE LET k == CHOOSE x \in S : \A y \in S : y <= x
                      IN <<k>> \o Desc(S \ {k})
  IN Desc(hit)

\* .skip(skip).limit(limitNum)
SkipLimit(ids, skip, limit) ==
  {ids[j] : j \in {j \in 1..Len(ids) : j > skip /\ j <= skip + limit}}

StartGetMyOrders(r) ==
  /\ CanStart(r)
  /\ \E u \in Users, page \in 1..MaxPage, limit \in 1..MaxLimit, status \in StatusFilters :
       req' = [req EXCEPT ![r] = [IdleReq EXCEPT !.op = "getMyOrders", !.pc = "findOrder",
                                                 !.user = u, !.status = status,
                                                 !.page = page, !.limit = limit,
                                                 !.todo = {"find", "countDocuments"}]]
  /\ started' = started + 1
  /\ UNCHANGED <<drugs, carts, orders, faults, clock, ghosts>>

\* Promise.all([Order.find(query)...skip(skip).limit(limitNum),
\* Order.countDocuments(query)]), answered in either order, then
\* customPaginatedResponse
GetMyOrders(r) ==
  /\ req[r].op = "getMyOrders"
  /\ req[r].pc = "findOrder"
  /\ \E q \in req[r].todo :
       LET mine == MyOrders(orders, req[r].user, req[r].status)
           skip == (req[r].page - 1) * req[r].limit
           got == IF q = "find" THEN SkipLimit(mine, skip, req[r].limit) ELSE req[r].got
           totalDocs == IF q = "countDocuments" THEN Len(mine) ELSE req[r].totalDocs
       IN IF req[r].todo = {q}
            THEN req' = [req EXCEPT ![r] = [IdleReq EXCEPT
                           !.op = req[r].op, !.pc = "done", !.user = req[r].user,
                           !.status = req[r].status,
                           !.page = req[r].page, !.limit = req[r].limit,
                           !.got = got, !.totalDocs = totalDocs,
                           !.pagination = customPaginatedResponse(req[r].page,
                                                                  req[r].limit, totalDocs),
                           !.resp = "200"]]
            ELSE req' = [req EXCEPT ![r].got = got, ![r].totalDocs = totalDocs,
                                    ![r].todo = @ \ {q}]
  /\ UNCHANGED <<drugs, carts, orders, started, faults, clock, ghosts>>

\* ------------------------------------------------------- storage faults
\* Every position of a handler is an awaited storage call; the call may
\* throw without taking effect, and the handler's catch answers 500.
StorageFault(r) ==
  /\ req[r].pc \notin {"idle", "done"}
  /\ faults < MaxFaults
  /\ faults' = faults + 1
  /\ Respond(r, "500")
  /\ UNCHANGED <<drugs, carts, orders, started, clock, ghosts>>

\* the response has been sent; the worker is free again
Finish(r) ==
  /\ req[r].pc = "done"
  /\ req' = [req EXCEPT ![r] = IdleReq]
  /\ UNCHANGED <<drugs, carts, orders, started, faults, clock, ghosts>>

\* -------------------------------------------------------- catalog edits
\* prices an admin gives a product
CatalogPrices(p) == {Price(p), Price(p) + 500}

\* updateDrug: Drug.findByIdAndUpdate(id, req.body) with a new price and
\* active flag
UpdateDrug(p) ==
  /\ started < MaxOps
  /\ \E price \in CatalogPrices(p), active \in BOOLEAN :
       drugs' = [drugs EXCEPT ![p].price = price, ![p].isActive = active]
  /\ started' = started + 1
  /\ UNCHANGED <<carts, orders, req, faults, clock, ghosts>>

\* updateStock: drug.save() of the quantity computed from the request (set,
\* add to or subtract from the quantity read, never below 0)
UpdateStock(p) ==
  /\ started < MaxOps
  /\ \E q \in 0..MaxStock : drugs' = [drugs EXCEPT ![p].stock = q]
  /\ started' = started + 1
  /\ UNCHANGED <<carts, orders, req, faults, clock, ghosts>>

\* the updateStock handler step by step: Drug.findById, the new quantity
\* computed from the quantity read, drug.save()
StockOperations == {"set", "add", "subtract"}

\* switch (operation): the quantity to store, from the quantity read
NewQuantity(operation, read, quantity) ==
  CASE operation = "add" -> read + quantity
    [] operation = "subtract" -> IF read - quantity > 0 THEN read - quantity ELSE 0
    [] OTHER -> quantity

StartUpdateStockRequest(r) ==
  /\ CanStart(r)
  /\ \E p \in Products, q \in 0..MaxQty, operation \in StockOperations :
       req' = [req EXCEPT ![r] = [IdleReq EXCEPT !.op = "updateStock", !.pc = "findDrug",
                                                 !.user = Admin, !.drug = p, !.qty = q,
                                                 !.operation = operation]]
  /\ started' = started + 1
  /\ UNCHANGED <<drugs, carts, orders, faults, clock, ghosts>>

UpdateStockRequest(r) ==
  /\ req[r].op = "updateStock"
  /\ UNCHANGED <<carts, orders, started, faults, clock, ghosts>>
  /\ LET p == req[r].drug
     IN CASE req[r].pc = "findDrug" ->
               \* Drug.findById(req.params.id)
               /\ req' = [req EXCEPT ![r].snap = [NoSnap EXCEPT ![p] = Populate(p, AllPaths)],
                                     ![r].pc = "saveDrug"]
               /\ drugs' = drugs
          [] req[r].pc = "saveDrug" ->
               \* drug.stock.quantity = newQuantity; drug.save() writes the
               \* path when its value differs from the one read
               LET read == req[r].snap[p].stock
                   newQuantity == NewQuantity(req[r].operation, read, req[r].qty)
               IN /\ drugs' = IF newQuantity # read
                                THEN [drugs EXCEPT ![p].stock = newQuantity]
                                ELSE drugs
                  /\ Respond(r, "200")
          [] OTHER -> FALSE

\* --------------------------------------------------------------- ledger
\* units of product p in the lines of one order
UnitsIn(o, p) ==
  SumSeq([i \in 1..Len(o.items) |->
           IF o.items[i].drug = p THEN o.items[i].quantity ELSE 0])

\* units of product p held by the orders that are not cancelled
Held(os, p) ==
  SumSeq([k \in 1..Len(os) |->
           IF os[k].orderStatus # "cancelled" THEN UnitsIn(os[k], p) ELSE 0])

\* no request is in flight
Quiescent == \A r \in Slots : req[r].pc \in {"idle", "done"}

\* --------------------------------------------------- getOrderStatistics
\* createdAt of the k-th order is its position in insertion order; a date
\* of the range is such a position, 0 when the bound is not given
DateFilter(k, startDate, endDate) ==
  /\ startDate = 0 \/ k >= startDate
  /\ endDate = 0 \/ k <= endDate

\* Order.countDocuments(dateFilter)
CountDocuments(os, startDate, endDate) ==
  Cardinality({k \in 1..Len(os) : DateFilter(k, startDate, endDate)})

\* Order.getOrderStats(): $group by orderStatus over all orders
getOrderStats(os) ==
  [s \in Statuses |->
    [count |-> Cardinality({k \in 1..Len(os) : os[k].orderStatus = s}),
     totalAmount |-> SumSeq([k \in 1..Len(os) |->
                              IF os[k].orderStatus = s
                                THEN os[k].orderSummary.total ELSE 0])]]

\* Order.aggregate([{$match: dateFilter}, {$group: {totalRevenue: ...}}])
TotalRevenue(os, startDate, endDate) ==
  SumSeq([k \in 1..Len(os) |->
           IF DateFilter(k, startDate, endDate) THEN os[k].orderSummary.total ELSE 0])

\* Order.aggregate([{$match: dateFilter}, {$unwind: '$items'}, {$group: ...}])
TopDrugs(os, startDate, endDate) ==
  [p \in Products |->
    SumSeq([k \in 1..Len(os) |->
             IF DateFilter(k, startDate, endDate) THEN UnitsIn(os[k], p) ELSE 0])]

StartGetOrderStatistics(r) ==
  /\ CanStart(r)
  /\ \E startDate, endDate \in 0..MaxOrders :
       req' = [req EXCEPT ![r] = [IdleReq EXCEPT
                 !.op = "getOrderStatistics", !.pc = "queries", !.user = Admin,
                 !.startDate = startDate, !.endDate = endDate,
                 !.todo = {"countDocuments", "getOrderStats", "revenue", "topDrugs"}]]
  /\ started' = started + 1
  /\ UNCHANGED <<drugs, carts, orders, faults, clock, ghosts>>

\* Promise.all of the four queries: they are answered in any order, and the
\* response follows the last answer
GetOrderStatistics(r) ==
  /\ req[r].op = "getOrderStatistics"
  /\ req[r].pc = "queries"
  /\ \E q \in req[r].todo :
       LET from == req[r].startDate
           to == req[r].endDate
           stats == CASE q = "countDocuments" ->
                           [req[r].stats EXCEPT !.totalOrders = CountDocuments(orders, from, to)]
                      [] q = "getOrderStats" ->
                           [req[r].stats EXCEPT !.ordersByStatus = getOrderStats(orders)]
                      [] q = "revenue" ->
                           [req[r].stats EXCEPT !.totalRevenue = TotalRevenue(orders, from, to)]
                      [] OTHER ->
                           [req[r].stats EXCEPT !.topSellingDrugs = TopDrugs(orders, from, to)]
       IN IF req[r].todo = {q}
            THEN req' = [req EXCEPT ![r] = [IdleReq EXCEPT
                           !.op = req[r].op, !.pc = "done", !.user = req[r].user,
                           !.startDate = from, !.endDate = to,
                           !.stats = stats, !.resp = "200"]]
            ELSE req' = [req EXCEPT ![r].stats = stats, ![r].todo = @ \ {q}]
  /\ UNCHANGED <<drugs, carts, orders, started, faults, clock, ghosts>>

\* ----------------------------------------------------------------- Init
\* prescriptionRequired of the seeded products
Rx(p) == p = "B"

SeedDrug(p, s) == [stock |-> s, salesCount |-> 0, isActive |-> TRUE,
                   price |-> Price(p), prescriptionRequired |-> Rx(p)]

\* the populated drugs a checkout would have seen
SeedSnap == [p \in Products |->
              [drug |-> p, price |-> Price(p), stock |-> MaxStock,
               prescriptionRequired |-> Rx(p), isActive |-> TRUE]]

\* an order document as Order.create persists it
SeedOrder(u, lines) == OrderCreateDoc(BuildOrderData(u, lines, SeedSnap), 1)

\* A shop with two customers who both hold q units of A in their carts while
\* q units are in stock (u1 also one unit of B, of which sb are in stock),
\* and possibly one earlier order of u1.
InitShop ==
  \E q \in 1..MaxStock, sb \in 0..1, withOrder \in BOOLEAN :
    /\ drugs = [p \in Products |-> SeedDrug(p, IF p = "A" THEN q ELSE sb)]
    /\ carts = [u \in Customers |->
                 IF u = "u1"
                   THEN CartPreSave(<<CartItem("A", q, Price("A")),
                                      CartItem("B", 1, Price("B"))>>)
                   ELSE CartPreSave(<<CartItem("A", q, Price("A"))>>)]
    /\ orders = IF withOrder
                  THEN <<SeedOrder("u1", <<CartItem("A", 1, Price("A")),
                                           CartItem("B", 1, Price("B"))>>)>>
                  ELSE <<>>

\* The checkout scenario: 5 units of A and 1 of B in stock, u1's cart holds
\* 2 x A and 1 x B, u2 has no cart yet.
InitScenario ==
  /\ drugs = [p \in Products |-> SeedDrug(p, IF p = "A" THEN 5 ELSE 1)]
  /\ carts = [u \in Customers |->
               IF u = "u1"
                 THEN CartPreSave(<<CartItem("A", 2, Price("A")),
                                    CartItem("B", 1, Price("B"))>>)
                 ELSE NoCart]
  /\ orders = <<>>

Init ==
  /\ InitShop \/ InitScenario
  /\ req = [r \in Slots |-> IdleReq]
  /\ started = 0
  /\ faults = 0
  /\ clock = 1
  /\ stock0 = [p \in Products |-> drugs[p].stock]
  /\ carts0 = carts
  /\ orders0 = orders

Next ==
  \E r \in Slots :
    \/ StartCreateOrder(r)
    \/ CreateOrder(r)
    \/ StartCancelOrder(r)
    \/ CancelOrder(r)
    \/ StartUpdateOrderStatus(r)
    \/ UpdateOrderStatus(r)
    \/ StartAddToCart(r)
    \/ AddToCart(r)
    \/ StorageFault(r)
    \/ Finish(r)

Spec == Init /\ [][Next]_vars

\* ------------------------------------------------- with the catalog edits
\* The same handlers together with the admin's catalog and stock edits, from
\* one shop: u1's cart holds one unit of each product, u2's cart is empty,
\* and u1 has one earlier order.
InitCatalog ==
  /\ drugs = [p \in Products |-> SeedDrug(p, IF p = "A" THEN MaxStock ELSE 1)]
  /\ carts = [u \in Customers |->
               IF u = "u1"
                 THEN CartPreSave(<<CartItem("A", 1, Price("A")),
                                    CartItem("B", 1, Price("B"))>>)
                 ELSE CartPreSave(<<>>)]
  /\ orders = <<SeedOrder("u1", <<CartItem("A", 1, Price("A")),
                                  CartItem("B", 1, Price("B"))>>)>>
  /\ req = [r \in Slots |-> IdleReq]
  /\ started = 0
  /\ faults = 0
  /\ clock = 1
  /\ stock0 = [p \in Products |-> drugs[p].stock]
  /\ carts0 = carts
  /\ orders0 = orders

NextCatalog ==
  \/ Next
  \/ \E p \in Products : UpdateDrug(p)
  \/ \E p \in Products : UpdateStock(p)

SpecCatalog == InitCatalog /\ [][NextCatalog]_vars

\* --------------------------------------------------------- the carts
\* The cart handlers of the customers together with the admin's catalog and
\* stock edits: u1's cart holds one unit of A, u2 has no cart yet.
InitCart ==
  /\ drugs = [p \in Products |-> SeedDrug(p, IF p = "A" THEN MaxStock ELSE 1)]
  /\ carts = [u \in Customers |->
               IF u = "u1" THEN CartPreSave(<<CartItem("A", 1, Price("A"))>>)
               ELSE NoCart]
  /\ orders = <<>>
  /\ req = [r \in Slots |-> IdleReq]
  /\ started = 0
  /\ faults = 0
  /\ clock = 1
  /\ stock0 = [p \in Products |-> drugs[p].stock]
  /\ carts0 = carts
  /\ orders0 = orders

NextCart ==
  \/ \E p \in Products : UpdateDrug(p)
  \/ \E p \in Products : UpdateStock(p)
  \/ \E r \in Slots :
       \/ StartAddToCart(r)
       \/ AddToCart(r)
       \/ StartUpdateCartItem(r)
       \/ UpdateCartItem(r)
       \/ StartRemoveFromCart(r)
       \/ RemoveFromCart(r)
       \/ StartClearCart(r)
       \/ ClearCart(r)
       \/ StartFixCartIssues(r)
       \/ FixCartIssues(r)
       \/ StartGetCart(r)
       \/ GetCart(r)
       \/ StorageFault(r)
       \/ Finish(r)

SpecCart == InitCart /\ [][NextCart]_vars

\* ------------------------------------------------------ access to orders
\* Reading and cancelling the one order of u1 by every kind of requester.
InitAccess ==
  /\ drugs = [p \in Products |-> SeedDrug(p, 1)]
  /\ carts = [u \in Customers |-> NoCart]
  /\ orders = <<SeedOrder("u1", <<CartItem("A", 1, Price("A")),
                                  CartItem("B", 1, Price("B"))>>)>>
  /\ req = [r \in Slots |-> IdleReq]
  /\ started = 0
  /\ faults = 0
  /\ clock = 1
  /\ stock0 = [p \in Products |-> drugs[p].stock]
  /\ carts0 = carts
  /\ orders0 = orders

NextAccess ==
  \E r \in Slots :
    \/ StartGetOrder(r)
    \/ GetOrder(r)
    \/ StartGetMyOrders(r)
    \/ GetMyOrders(r)
    \/ StartCancelOrder(r)
    \/ CancelOrder(r)
    \/ StartUpdateOrderStatus(r)
    \/ UpdateOrderStatus(r)
    \/ StorageFault(r)
    \/ Finish(r)

SpecAccess == InitAccess /\ [][NextAccess]_vars

\* ------------------------------------------------- the order documents
\* The life of the order documents, driven at the Order model: Order.create
\* applied to the order data createOrder builds from a cart and its
\* populated drugs, then the status handlers, the cart handler and the
\* catalog edits of the admin.

\* lines 54-90 of createOrder for customer u: the line snapshots, the totals
\* and Order.create(orderData); a generated number already in use makes the
\* insert fail
OrderCreate(u) ==
  /\ carts[u].exists
  /\ Len(carts[u].items) > 0
  /\ Len(orders) < MaxOrders
  /\ \E n \in OrderNumbers :
       LET snap == [p \in Products |-> Populate(p, CreateOrderSelect)]
           doc == OrderCreateDoc(BuildOrderData(u, carts[u].items, snap), n)
       IN orders' = IF OrderNumberTaken(orders, n) THEN orders
                    ELSE Append(orders, doc)
  /\ UNCHANGED <<drugs, carts, req, started, faults, clock, ghosts>>

\* a stocked catalog, the cart of u1 holding one unit of each product at the
\* catalog prices, no order yet
InitOrders ==
  /\ drugs = [p \in Products |-> SeedDrug(p, MaxStock)]
  /\ carts = [u \in Customers |->
               IF u = "u1"
                 THEN CartPreSave(<<CartItem("A", 1, Price("A")),
                                    CartItem("B", 1, Price("B"))>>)
                 ELSE NoCart]
  /\ orders = <<>>
  /\ req = [r \in Slots |-> IdleReq]
  /\ started = 0
  /\ faults = 0
  /\ clock = 1
  /\ stock0 = [p \in Products |-> drugs[p].stock]
  /\ carts0 = carts
  /\ orders0 = orders

NextOrders ==
  \/ \E u \in Customers : OrderCreate(u)
  \/ \E p \in Products : UpdateDrug(p)
  \/ \E p \in Products : UpdateStock(p)
  \/ \E r \in Slots :
       \/ StartCancelOrder(r)
       \/ CancelOrder(r)
       \/ StartUpdateOrderStatus(r)
       \/ UpdateOrderStatus(r)
       \/ Finish(r)

SpecOrders == InitOrders /\ [][NextOrders]_vars

\* ------------------------------------------ stock edits beside orders
\* A pending order of u1 and a cart of u1; the admin's updateStock runs
\* beside cancelOrder and createOrder.
InitStock ==
  /\ drugs = [p \in Products |-> SeedDrug(p, 1)]
  /\ carts = [u \in Customers |->
               IF u = "u1" THEN CartPreSave(<<CartItem("A", 1, Price("A"))>>)
               ELSE NoCart]
  /\ orders = <<SeedOrder("u1", <<CartItem("A", 1, Price("A"))>>)>>
  /\ req = [r \in Slots |-> IdleReq]
  /\ started = 0
  /\ faults = 0
  /\ clock = 1
  /\ stock0 = [p \in Products |-> drugs[p].stock]
  /\ carts0 = carts
  /\ orders0 = orders

NextStock ==
  \E r \in Slots :
    \/ StartUpdateStockRequest(r)
    \/ UpdateStockRequest(r)
    \/ StartCancelOrder(r)
    \/ CancelOrder(r)
    \/ StartCreateOrder(r)
    \/ CreateOrder(r)
    \/ Finish(r)

SpecStock == InitStock /\ [][NextStock]_vars

\* ------------------------------------------------------ order statistics
\* Two stored orders; the admin asks for statistics and updates statuses.
InitStatistics ==
  /\ drugs = [p \in Products |-> SeedDrug(p, MaxStock)]
  /\ carts = [u \in Customers |-> NoCart]
  /\ orders = <<SeedOrder("u1", <<CartItem("A", 1, Price("A")),
                                  CartItem("B", 1, Price("B"))>>),
                [SeedOrder("u2", <<CartItem("A", 1, Price("A"))>>)
                   EXCEPT !.orderNumber = 2]>>
  /\ req = [r \in Slots |-> IdleReq]
  /\ started = 0
  /\ faults = 0
  /\ clock = 1
  /\ stock0 = [p \in Products |-> drugs[p].stock]
  /\ carts0 = carts
  /\ orders0 = orders

NextStatistics ==
  \E r \in Slots :
    \/ StartGetOrderStatistics(r)
    \/ GetOrderStatistics(r)
    \/ StartUpdateOrderStatus(r)
    \/ UpdateOrderStatus(r)
    \/ Finish(r)

SpecStatistics == InitStatistics /\ [][NextStatistics]_vars

\* ------------------------------------------------------------ pagination
\* Up to MaxOrders stored orders of u1; getMyOrders with every page and
\* limit.
InitPagination ==
  \E t \in 0..MaxOrders :
    /\ drugs = [p \in Products |-> SeedDrug(p, MaxStock)]
    /\ carts = [u \in Customers |-> NoCart]
    /\ orders = [k \in 1..t |->
                  [SeedOrder("u1", <<CartItem("A", 1, Price("A"))>>)
                     EXCEPT !.orderNumber = k]]
    /\ req = [r \in Slots |-> IdleReq]
    /\ started = 0
    /\ faults = 0
    /\ clock = 1
    /\ stock0 = [p \in Products |-> drugs[p].stock]
    /\ carts0 = carts
    /\ orders0 = orders

NextPagination ==
  \E r \in Slots :
    \/ StartGetMyOrders(r)
    \/ GetMyOrders(r)
    \/ Finish(r)

SpecPagination == InitPagination /\ [][NextPagination]_vars

\* ------------------------------------------------------------- liveness
\* One cart and one pending order of u1; up to MaxLiveOps calls of the
\* order handlers and the cart handlers, with storage faults. A handler
\* that has been called keeps running: each awaited storage call returns
\* or throws.
InitLive ==
  /\ drugs = [p \in Products |-> SeedDrug(p, 1)]
  /\ carts = [u \in Customers |->
               IF u = "u1" THEN CartPreSave(<<CartItem("A", 1, Price("A"))>>)
               ELSE NoCart]
  /\ orders = <<SeedOrder("u1", <<CartItem("A", 1, Price("A"))>>)>>
  /\ req = [r \in Slots |-> IdleReq]
  /\ started = 0
  /\ faults = 0
  /\ clock = 1
  /\ stock0 = [p \in Products |-> drugs[p].stock]
  /\ carts0 = carts
  /\ orders0 = orders

\* the next step of the handler running in slot r
HandlerStep(r) ==
  \/ CreateOrder(r)
  \/ CancelOrder(r)
  \/ UpdateOrderStatus(r)
  \/ AddToCart(r)
  \/ UpdateCartItem(r)
  \/ RemoveFromCart(r)
  \/ ClearCart(r)
  \/ FixCartIssues(r)
  \/ GetCart(r)
  \/ ValidateCart(r)

\* no call is started once MaxLiveOps calls have been
LiveBudget == started < MaxLiveOps

NextLive ==
  \E r \in Slots :
    \/ LiveBudget /\ StartCreateOrder(r)
    \/ LiveBudget /\ StartCancelOrder(r)
    \/ LiveBudget /\ StartUpdateOrderStatus(r)
    \/ LiveBudget /\ StartAddToCart(r)
    \/ LiveBudget /\ StartUpdateCartItem(r)
    \/ LiveBudget /\ StartRemoveFromCart(r)
    \/ LiveBudget /\ StartClearCart(r)
    \/ LiveBudget /\ StartFixCartIssues(r)
    \/ LiveBudget /\ StartGetCart(r)
    \/ LiveBudget /\ StartValidateCart(r)
    \/ HandlerStep(r)
    \/ StorageFault(r)
    \/ Finish(r)

SpecLive ==
  /\ InitLive
  /\ [][NextLive]_vars
  /\ \A r \in Slots : WF_vars(HandlerStep(r))

\* ------------------------------------------------- pricing at creation
\* Order.create on carts of u1 holding up to MaxLineQty units of each
\* product, at catalog prices that may be edited between two orders: the
\* subtotals lie below, at and above the free-shipping threshold.
InitPricing ==
  \E qa, qb \in 0..MaxLineQty :
    /\ qa + qb > 0
    /\ drugs = [p \in Products |-> SeedDrug(p, MaxStock)]
    /\ carts = [u \in Customers |->
                 IF u = "u1"
                   THEN CartPreSave(
                          (IF qa > 0 THEN <<CartItem("A", qa, Price("A"))>> ELSE <<>>)
                          \o (IF qb > 0 THEN <<CartItem("B", qb, Price("B"))>> ELSE <<>>))
                   ELSE NoCart]
    /\ orders = <<>>
    /\ req = [r \in Slots |-> IdleReq]
    /\ started = 0
    /\ faults = 0
    /\ clock = 1
    /\ stock0 = [p \in Products |-> drugs[p].stock]
    /\ carts0 = carts
    /\ orders0 = orders

NextPricing ==
  \/ \E u \in Customers : OrderCreate(u)
  \/ \E p \in Products : UpdateDrug(p)

SpecPricing == InitPricing /\ [][NextPricing]_vars

\* -------------------------------------------- orders with and without Rx
\* an order without a prescription line (u2's), Order.create on a cart with
\* one (u1's), and the status updates of both.
InitPrescription ==
  /\ drugs = [p \in Products |-> SeedDrug(p, MaxStock)]
  /\ carts = [u \in Customers |->
               IF u = "u1"
                 THEN CartPreSave(<<CartItem("A", 1, Price("A")),
                                    CartItem("B", 1, Price("B"))>>)
                 ELSE NoCart]
  /\ orders = <<SeedOrder("u2", <<CartItem("A", 1, Price("A"))>>)>>
  /\ req = [r \in Slots |-> IdleReq]
  /\ started = 0
  /\ faults = 0
  /\ clock = 1
  /\ stock0 = [p \in Products |-> drugs[p].stock]
  /\ carts0 = carts
  /\ orders0 = orders

NextPrescription ==
  \/ \E u \in Customers : OrderCreate(u)
  \/ \E r \in Slots :
       \/ StartUpdateOrderStatus(r)
       \/ UpdateOrderStatus(r)
       \/ Finish(r)

SpecPrescription == InitPrescription /\ [][NextPrescription]_vars

\* ================================================================ claims
Done(r, op) == req[r].op = op /\ req[r].pc = "done"

\* units of product p in the lines of a cart
UnitsInCart(c, p) ==
  SumSeq([i \in 1..Len(c.items) |->
           IF c.items[i].drug = p THEN c.items[i].quantity ELSE 0])

\* every line of the cart refers to an active product with enough initial stock
CartCovered(c) ==
  /\ c.exists
  /\ Len(c.items) > 0
  /\ \A i \in 1..Len(c.items) :
       /\ drugs[c.items[i].drug].isActive
       /\ stock0[c.items[i].drug] >= c.items[i].quantity

\* the requester owns the order or is an admin
MayCancel(u, o) == o.user = u \/ Role(u) = "admin"

\* ------------------------------------------------------------------- C1
\* C1: when the carts of the customers each hold q >= 1 units of a product of
\* which q are in stock and the customers' createOrder calls run
\* concurrently, exactly one call succeeds, the others fail with an
\* insufficient-stock error, and the product's stock ends at 0.
CheckoutCalls == {r \in Slots : Done(r, "createOrder")}

OversellPrevented ==
  ( /\ stock0["A"] >= 1
    /\ \A u \in Customers :
         /\ CartCovered(carts0[u])
         /\ UnitsInCart(carts0[u], "A") = stock0["A"]
    /\ faults = 0
    /\ started >= 2
    /\ Cardinality(CheckoutCalls) = started
    /\ \A r1, r2 \in CheckoutCalls : r1 # r2 => req[r1].user # req[r2].user )
  => /\ Cardinality({r \in CheckoutCalls : req[r].resp = "201 created"}) = 1
     /\ \A r \in CheckoutCalls :
          req[r].resp \in {"201 created", "400 insufficient stock"}
     /\ drugs["A"].stock = 0

CheckoutSucceeds ==
  \A r \in Slots :
    ( /\ Done(r, "createOrder")
      /\ started = 1
      /\ faults = 0
      /\ CartCovered(carts0[req[r].user]) )
    => LET c == carts0[req[r].user]
       IN /\ req[r].resp = "201 created"
          /\ Len(orders) = Len(orders0) + 1
          /\ orders[Len(orders)].orderSummary.subtotal =
               SumSeq([i \in 1..Len(c.items) |->
                        drugs[c.items[i].drug].price * c.items[i].quantity])
          /\ \A p \in Products : drugs[p].stock = stock0[p] - UnitsInCart(c, p)

\* ------------------------------------------------------------------- C6
\* C6: in every quiescent state, for every product, the stock plus the units
\* in the lines of the orders that are not cancelled equals what it was
\* initially (stock is restored exactly once per order that becomes
\* cancelled, whichever operation cancelled it).
StockConserved ==
  (Quiescent /\ faults = 0)
    => \A p \in Products :
         drugs[p].stock + Held(orders, p) = stock0[p] + Held(orders0, p)

\* ------------------------------------------------------------------- C7
\* C7: a cancelOrder that reads a status other than pending or confirmed is
\* rejected in that step with orders and stock unchanged, and ends having
\* adjusted no stock; a cancelOrder by an entitled requester that reads
\* pending writes the status cancelled and ends with success after adding
\* every line's quantity back to its product's stock.
CancelReads(r) ==
  /\ req[r].op = "cancelOrder"
  /\ req[r].pc = "findOrder"
  /\ req'[r].pc # "findOrder"
  /\ faults' = faults
  /\ req[r].oid <= Len(orders)

CancelSaves(r) ==
  /\ req[r].op = "cancelOrder"
  /\ req[r].pc = "save"
  /\ req'[r].pc # "save"
  /\ faults' = faults

CancelGuardStep ==
  \A r \in Slots :
    /\ (CancelReads(r) /\ orders[req[r].oid].orderStatus \notin {"pending", "confirmed"})
         => /\ req'[r].pc = "done"
            /\ req'[r].resp \in {"400 cannot cancel", "400 not authorized"}
            /\ MayCancel(req[r].user, orders[req[r].oid])
                 => req'[r].resp = "400 cannot cancel"
            /\ orders' = orders
            /\ drugs' = drugs
    /\ CancelSaves(r)
         => /\ orders'[req[r].oid].orderStatus = "cancelled"
            /\ req[r].seen \in {"pending", "confirmed"}

CancelOutcome ==
  \A r \in Slots :
    Done(r, "cancelOrder") =>
      /\ req[r].seen \notin {"pending", "confirmed"}
           => /\ req[r].resp # "200"
              /\ \A p \in Products : req[r].adj[p] = 0
      /\ ( /\ req[r].seen = "pending"
           /\ MayCancel(req[r].user, orders[req[r].oid])
           /\ req[r].resp # "500" )
           => /\ req[r].resp = "200"
              /\ \A p \in Products : req[r].adj[p] = UnitsIn(orders[req[r].oid], p)

CancelGuard == []CancelOutcome /\ [][CancelGuardStep]_vars

\* one cancellation of a pending order went through and restored its units,
\* and a later one on the same, now cancelled, order was turned down
CancelledThenRefused ==
  \E r1, r2 \in Slots :
    /\ Done(r1, "cancelOrder") /\ req[r1].seen = "pending" /\ req[r1].resp = "200"
    /\ Done(r2, "cancelOrder") /\ req[r2].seen = "cancelled"
    /\ req[r2].resp = "400 cannot cancel"
    /\ req[r1].oid = req[r2].oid
    /\ orders[req[r1].oid].orderStatus = "cancelled"
    /\ \A p \in Products :
         drugs[p].stock = stock0[p] + UnitsIn(orders[req[r1].oid], p)

\* ------------------------------------------------------------------- C8
\* C8: a step that changes an order's persisted orderStatus to cancelled
\* starts from persisted status pending or confirmed.
CancelledOnlyFromOpen ==
  [][\A k \in 1..Len(orders) :
       (orders'[k].orderStatus = "cancelled" /\ orders[k].orderStatus # "cancelled")
         => orders[k].orderStatus \in {"pending", "confirmed"}]_vars

\* ------------------------------------------------------------------- C9
\* C9: once an order's orderStatus is cancelled or returned, no later
\* operation changes it.
TerminalStatusStays ==
  [][\A k \in 1..Len(orders) :
       orders[k].orderStatus \in {"cancelled", "returned"}
         => orders'[k].orderStatus = orders[k].orderStatus]_vars

\* ------------------------------------------------------------------ C10
\* C10: an order's orderStatus becomes returned only in a step that starts
\* from orderStatus delivered.
ReturnedOnlyFromDelivered ==
  [][\A k \in 1..Len(orders) :
       (orders'[k].orderStatus = "returned" /\ orders[k].orderStatus # "returned")
         => orders[k].orderStatus = "delivered"]_vars

\* ------------------------------------------------------------------ C11
\* C11: for every persisted order, from its creation on, statusHistory is
\* non-empty and its last entry's status is the current orderStatus, and
\* across every step the previous statusHistory is a prefix of the new one.
LastEntryIsStatus(o) ==
  Len(o.statusHistory) > 0 =>
    o.statusHistory[Len(o.statusHistory)].status = o.orderStatus

HistoryIsPrefix(h, g) == Len(g) >= Len(h) /\ SubSeq(g, 1, Len(h)) = h

HistoryGrows ==
  [][\A k \in 1..Len(orders) :
       HistoryIsPrefix(orders[k].statusHistory, orders'[k].statusHistory)]_vars

HistoryMonotone ==
  /\ [](\A k \in 1..Len(orders) :
          Len(orders[k].statusHistory) > 0 /\ LastEntryIsStatus(orders[k]))
  /\ HistoryGrows

\* ------------------------------------------------------------------ C12
\* C12: each status write of updateOrderStatus or cancelOrder appends exactly
\* one statusHistory entry, which carries the new status and the actor.
StatusWrite(r) ==
  /\ req[r].op \in {"updateOrderStatus", "cancelOrder"}
  /\ req[r].pc = "save"
  /\ req'[r].pc # "save"
  /\ faults' = faults

StatusWriteAppendsOne ==
  [][\A r \in Slots :
       StatusWrite(r) =>
         LET h == orders[req[r].oid].statusHistory
             g == orders'[req[r].oid].statusHistory
         IN /\ Len(g) = Len(h) + 1
            /\ g[Len(g)].status = req[r].order.orderStatus
            /\ g[Len(g)].updatedBy = req[r].user]_vars

\* ------------------------------------------------------------------ C13
\* C13: right after its creation an order has orderStatus pending and a
\* statusHistory of exactly one entry, whose status is pending.
CreatedOrderHasInitialEntry ==
  [][Len(orders') = Len(orders) + 1 =>
       LET o == orders'[Len(orders')]
       IN /\ o.orderStatus = "pending"
          /\ Len(o.statusHistory) = 1
          /\ o.statusHistory[1].status = "pending"]_vars

\* ------------------------------------------------------------------ C14
\* C14: for every persisted order, total = subtotal + tax + shipping -
\* discount and subtotal = the sum of the subtotals of the order's lines.
TotalInvariant ==
  \A k \in 1..Len(orders) :
    LET o == orders[k]
    IN /\ o.orderSummary.total = o.orderSummary.subtotal + o.orderSummary.tax
                                   + o.orderSummary.shipping - o.orderSummary.discount
       /\ o.orderSummary.subtotal =
            SumSeq([i \in 1..Len(o.items) |-> o.items[i].subtotal])

\* an order with tax and shipping in its total has been created and has
\* gone through a later save
TotalsSaved ==
  \E k \in 1..Len(orders) :
    /\ Len(orders[k].statusHistory) > 0
    /\ orders[k].orderSummary.shipping > 0
    /\ orders[k].orderSummary.tax > 0
    /\ orders[k].orderSummary.total > orders[k].orderSummary.subtotal

\* ------------------------------------------------------------------ C15
\* C15: once an order is persisted, its lines and its orderSummary never
\* change, whatever is done later to the catalog, the stock, the carts or
\* the order's status.
OrderContentFrozen ==
  [][\A k \in 1..Len(orders) :
       /\ orders'[k].items = orders[k].items
       /\ orders'[k].orderSummary = orders[k].orderSummary]_vars

\* the price of the product of an order line was edited and the order went
\* through a status save afterwards, the line still showing the old price
EditedAfterOrder ==
  \E k \in 1..Len(orders) :
    /\ Len(orders[k].statusHistory) > 0
    /\ \E i \in 1..Len(orders[k].items) :
         drugs[orders[k].items[i].drug].price # orders[k].items[i].price
    /\ orders[k].items = orders0[k].items

\* ------------------------------------------------------------------ C16
\* C16: each line of a created order has the catalog price of its product
\* at the time of the creation, not the price stored in the cart line, and
\* subtotal = that price x the cart line's quantity.
RepricedAtCheckout ==
  [][Len(orders') = Len(orders) + 1 =>
       LET o == orders'[Len(orders')]
           c == carts[o.user]
       IN /\ Len(o.items) = Len(c.items)
          /\ \A i \in 1..Len(o.items) :
               /\ o.items[i].drug = c.items[i].drug
               /\ o.items[i].price = drugs[c.items[i].drug].price
               /\ o.items[i].subtotal =
                    drugs[c.items[i].drug].price * c.items[i].quantity]_vars

\* an order was created whose line price is the edited catalog price, while
\* the cart line still holds the price it was added at
OrderPriceDiffersFromCart ==
  \E k \in 1..Len(orders) :
    \E i \in 1..Len(orders[k].items) :
      LET c == carts[orders[k].user]
      IN /\ Len(c.items) >= i
         /\ c.items[i].drug = orders[k].items[i].drug
         /\ orders[k].items[i].price # c.items[i].price
         /\ orders[k].items[i].price = drugs[c.items[i].drug].price

\* ------------------------------------------------------------------ C17
\* C17: a createOrder that finds no cart, a cart without lines, a line whose
\* product is inactive or a line whose product has less stock than the line
\* asks for, answers with a business-rule error, and the call persists no
\* order, changes no stock and leaves the carts as they are.
Rejectable(cart) ==
  \/ ~cart.exists
  \/ Len(cart.items) = 0
  \/ \E i \in 1..Len(cart.items) :
       \/ ~drugs[cart.items[i].drug].isActive
       \/ drugs[cart.items[i].drug].stock < cart.items[i].quantity

CheckoutValidates ==
  [][\A r \in Slots :
       ( /\ req[r].op = "createOrder"
         /\ req[r].pc \in {"findCart", "populate"}
         /\ req'[r] # req[r]
         /\ faults' = faults )
       => /\ orders' = orders /\ drugs' = drugs /\ carts' = carts
          /\ (req[r].pc = "populate" /\ Rejectable(req[r].cart))
               => /\ req'[r].pc = "done"
                  /\ req'[r].resp \in {"400 cart empty", "400 unavailable",
                                       "400 insufficient stock"}]_vars

\* a checkout of a cart with a line of a deactivated product was turned
\* down, and orders and stock are as they were
InactiveRejected ==
  \E r \in Slots :
    /\ Done(r, "createOrder")
    /\ req[r].resp = "400 unavailable"
    /\ \E i \in 1..Len(carts[req[r].user].items) :
         ~drugs[carts[req[r].user].items[i].drug].isActive
    /\ orders = orders0
    /\ carts = carts0
    /\ \A p \in Products : drugs[p].stock = stock0[p]

\* ------------------------------------------------------------------ C19
\* C19: every persisted order has an orderNumber, no two persisted orders
\* share one, and the orderNumber of an order never changes.
OrderNumberAssignedOnce ==
  /\ [](\A k \in 1..Len(orders) :
          /\ orders[k].orderNumber \in OrderNumbers
          /\ \A j \in 1..Len(orders) :
               j # k => orders[j].orderNumber # orders[k].orderNumber)
  /\ [][\A k \in 1..Len(orders) :
          orders'[k].orderNumber = orders[k].orderNumber]_vars

\* two orders with different numbers, one of which has been saved again
TwoNumberedOrders ==
  /\ Len(orders) >= 2
  /\ orders[1].orderNumber # orders[2].orderNumber
  /\ \E k \in 1..Len(orders) : Len(orders[k].statusHistory) > 0

CartTotalsDerived ==
  \A u \in Customers :
    carts[u].exists =>
      LET items == carts[u].items
      IN /\ carts[u].totalItems = SumSeq([i \in 1..Len(items) |-> items[i].quantity])
         /\ carts[u].totalAmount = SumSeq([i \in 1..Len(items) |-> items[i].subtotal])
         /\ \A i \in 1..Len(items) :
              items[i].subtotal = items[i].quantity * items[i].price

\* the cart.save() of call r succeeds in this step
CartSaved(r, op) ==
  /\ req[r].op = op
  /\ req[r].pc = "saveCart"
  /\ req'[r].pc = "respond"

\* lines j of two item arrays agree on product, quantity and price
SameLine(a, b) ==
  /\ a.drug = b.drug
  /\ a.quantity = b.quantity
  /\ a.price = b.price

\* C22: addToCart line semantics. When an addToCart of quantity n saves the
\* cart: if the product had a line in the cart the call loaded, that line's
\* quantity is the loaded quantity plus n and the number of lines is
\* unchanged; otherwise one line of the product with quantity n is appended
\* after the existing lines. In both cases every other line keeps its
\* product, quantity, price and position.
AddToCartLine ==
  [][\A r \in Slots :
       CartSaved(r, "addToCart") =>
         LET u == req[r].user
             p == req[r].drug
             n == req[r].qty
             ld == req[r].loaded.items
             st == carts[u].items
             st2 == carts'[u].items
             k == FindIndex(ld, p)
         IN IF k > 0
              THEN /\ Len(st2) = Len(st)
                   /\ st2[k].drug = p
                   /\ st2[k].quantity = ld[k].quantity + n
                   /\ st2[k].price = st[k].price
                   /\ \A j \in 1..Len(st) : j # k => SameLine(st2[j], st[j])
              ELSE /\ Len(st2) = Len(st) + 1
                   /\ st2[Len(st2)].drug = p
                   /\ st2[Len(st2)].quantity = n
                   /\ \A j \in 1..Len(st) : SameLine(st2[j], st[j])]_vars

\* u1, whose cart held one unit of A, has added one more A and one B
AddedBoth ==
  /\ \A r \in Slots : Done(r, "addToCart") /\ req[r].user = "u1" /\ req[r].resp = "200"
  /\ Len(carts0["u1"].items) = 1
  /\ Len(carts["u1"].items) = 2
  /\ carts["u1"].items[1].drug = "A"
  /\ carts["u1"].items[1].quantity = carts0["u1"].items[1].quantity + 1
  /\ carts["u1"].items[2].drug = "B"
  /\ carts["u1"].items[2].quantity = 1

\* C23: updateCartItem semantics. A call for a product that has no line in
\* the cart (or of a customer without a cart) ends with a not-found error
\* and the carts unchanged. When the call's cart.save() succeeds: with
\* quantity 0 the stored lines are the loaded lines without the product's
\* line, in the same order; with quantity > 0 the number of lines is
\* unchanged, every other line is unchanged, and the line, if no other call
\* changed it since this call loaded it, has the requested quantity and the
\* catalog price the call read.
UpdateCartItemSemantics ==
  [][\A r \in Slots :
       LET u == req[r].user
           p == req[r].drug
           i == req[r].i
           ld == req[r].loaded.items
           st == carts[u].items
           st2 == carts'[u].items
       IN /\ ( /\ req[r].op = "updateCartItem"
               /\ req[r].pc = "findCart"
               /\ req'[r] # req[r]
               /\ ~carts[u].exists \/ FindIndex(st, p) = 0 )
             => /\ req'[r].pc = "done"
                /\ carts' = carts
                /\ faults' = faults => req'[r].resp \in {"404 cart", "404 item"}
          /\ CartSaved(r, "updateCartItem") /\ req[r].qty = 0
             => /\ Len(st2) = Len(ld) - 1
                /\ \A j \in 1..Len(st2) :
                     st2[j] = IF j < i THEN ld[j] ELSE ld[j + 1]
                /\ ld[i].drug = p
          /\ CartSaved(r, "updateCartItem") /\ req[r].qty > 0
             => /\ Len(st2) = Len(st)
                /\ \A j \in 1..Len(st) : j # i => st2[j] = st[j]
                /\ (i <= Len(st) /\ st[i] = ld[i])
                   => /\ st2[i].drug = p
                      /\ st2[i].quantity = req[r].qty
                      /\ st2[i].price = req[r].snap[p].price]_vars

\* u1's line of A, stored at the old price, carries the new catalog price
\* after updateCartItem
PriceRefreshed ==
  \E r \in Slots :
    /\ Done(r, "updateCartItem")
    /\ req[r].user = "u1"
    /\ req[r].drug = "A"
    /\ req[r].resp = "200"
    /\ Len(carts["u1"].items) = 1
    /\ carts["u1"].items[1].price = drugs["A"].price
    /\ carts["u1"].items[1].price # carts0["u1"].items[1].price

\* C24: in every reachable state a cart contains at most one line per
\* product.
OneLinePerProduct ==
  \A u \in Customers :
    \A i, j \in 1..Len(carts[u].items) :
      carts[u].items[i].drug = carts[u].items[j].drug => i = j

\* C25: two cancelOrder calls for the same pending or confirmed order, with
\* nothing else running, restore the order's quantities to stock once: at
\* most one of the two calls succeeds, and once one has, every product's
\* stock is what it was before the calls plus the units of the order.
CancelRestoresOnce ==
  ( /\ started = 2
    /\ faults = 0
    /\ Len(orders0) >= 1
    /\ orders0[1].orderStatus \in {"pending", "confirmed"}
    /\ \A r \in Slots : Done(r, "cancelOrder") /\ req[r].oid = 1 )
  => /\ Cardinality({r \in Slots : req[r].resp = "200"}) <= 1
     /\ \A p \in Products :
          drugs[p].stock =
            stock0[p] + (IF \E r \in Slots : req[r].resp = "200"
                           THEN UnitsIn(orders0[1], p) ELSE 0)

\* C26: order access control. An order returned by getOrder is owned by the
\* requester unless the requester is an admin; the orders returned by
\* getMyOrders are all owned by the requester; a cancelOrder call of a
\* requester who is neither the order's owner nor an admin never changes an
\* order or a product's stock and is not answered with success.
AccessControl ==
  /\ [](\A r \in Slots :
          /\ Done(r, "getOrder")
             => \A k \in req[r].got : MayCancel(req[r].user, orders[k])
          /\ Done(r, "getMyOrders")
             => \A k \in req[r].got : orders[k].user = req[r].user)
  /\ [][\A r \in Slots :
          ( /\ req[r].op = "cancelOrder"
            /\ req'[r] # req[r]
            /\ req[r].oid <= Len(orders)
            /\ ~MayCancel(req[r].user, orders[req[r].oid]) )
          => /\ orders' = orders
             /\ drugs' = drugs
             /\ req'[r].pc = "done" => req'[r].resp \in {"400 not authorized", "500"}]_vars

\* u2 has asked for u1's order and has tried to cancel it; both calls were
\* refused and the order and the stock are as they were
StrangerRefused ==
  \E r1, r2 \in Slots :
    /\ Done(r1, "getOrder") /\ Done(r2, "cancelOrder")
    /\ req[r1].user = "u2" /\ req[r2].user = "u2"
    /\ req[r1].oid = 1 /\ req[r2].oid = 1
    /\ orders[1].user = "u1"
    /\ req[r1].resp = "400 not authorized" /\ req[r1].got = {}
    /\ req[r2].resp = "400 not authorized"
    /\ orders = orders0
    /\ \A p \in Products : drugs[p].stock = stock0[p]

\* C27: for every persisted order, requiresPrescription is true if and only
\* if at least one of its lines has prescriptionRequired true.
RequiresPrescriptionIsOr ==
  \A k \in 1..Len(orders) :
    orders[k].requiresPrescription
      <=> (\E i \in 1..Len(orders[k].items) : orders[k].items[i].prescriptionRequired)

\* an order without a prescription line and an order with one are stored,
\* each saved again by a status update
BothKindsSaved ==
  \E k1, k2 \in 1..Len(orders) :
    /\ ~orders[k1].requiresPrescription
    /\ orders[k2].requiresPrescription
    /\ \E i \in 1..Len(orders[k2].items) : ~orders[k2].items[i].prescriptionRequired
    /\ orders[k1].orderStatus # "pending"
    /\ orders[k2].orderStatus # "pending"

\* the answers of addToCart and updateCartItem that reject a call for
\* insufficient stock or an unavailable product
StockRejections ==
  {"404", "400 insufficient stock", "400 cannot add", "400 unavailable"}

\* C28: cart stock validation. When the cart.save() of an addToCart or of an
\* updateCartItem with quantity > 0 succeeds, the product was active when
\* the call read it and the quantity the call gave the line is at most the
\* stock the call read; so is the quantity of the stored line after the
\* save (for a line that existed: if no other call changed it since this
\* call loaded it). A step that rejects such a call for insufficient stock
\* or an unavailable product happens before any write of the call and
\* leaves the carts unchanged.
CartStockValidated ==
  [][\A r \in Slots :
       LET p == req[r].drug
           lc == req[r].cart.items
           ld == req[r].loaded.items
           st == carts[req[r].user].items
           st2 == carts'[req[r].user].items
           i == req[r].i
       IN /\ ( \/ CartSaved(r, "addToCart")
               \/ CartSaved(r, "updateCartItem") /\ req[r].qty > 0 )
             => /\ req[r].snap[p].isActive
                /\ IF i = 0
                     THEN /\ lc[Len(lc)].drug = p
                          /\ lc[Len(lc)].quantity <= req[r].snap[p].stock
                          /\ st2[Len(st2)].drug = p
                          /\ st2[Len(st2)].quantity <= req[r].snap[p].stock
                     ELSE /\ lc[i].drug = p
                          /\ lc[i].quantity <= req[r].snap[p].stock
                          /\ (i <= Len(st) /\ st[i] = ld[i])
                             => /\ st2[i].drug = p
                                /\ st2[i].quantity <= req[r].snap[p].stock
          /\ ( /\ req[r].op \in {"addToCart", "updateCartItem"}
               /\ req'[r].pc = "done"
               /\ req[r].pc # "done"
               /\ req'[r].resp \in StockRejections )
             => /\ carts' = carts
                /\ req[r].pc \in {"findDrug", "findCart"}]_vars

\* u1 has filled the line of A up to the stock, and a further addToCart of A
\* was rejected and left the cart as it was
AddBeyondStockRejected ==
  \E r1, r2 \in Slots :
    /\ Done(r1, "addToCart") /\ Done(r2, "addToCart")
    /\ req[r1].user = "u1" /\ req[r2].user = "u1"
    /\ req[r1].drug = "A" /\ req[r2].drug = "A"
    /\ req[r1].resp = "200"
    /\ req[r2].resp = "400 cannot add"
    /\ carts["u1"].items[1].drug = "A"
    /\ carts["u1"].items[1].quantity = drugs["A"].stock
    /\ drugs["A"].stock = stock0["A"]

\* the step creates the cart of customer u
CartCreated(u) == ~carts[u].exists /\ carts'[u].exists

\* C29: in every reachable state a customer has at most one cart, and a
\* cart comes into being only in a step of a getCart or addToCart call of
\* that customer, as an empty cart or with that call's first line.
OneCartPerCustomer ==
  /\ [](\A u \in Customers : carts[u].extra = 0)
  /\ [][\A u \in Customers :
          CartCreated(u)
            => \E r \in Slots :
                 /\ req[r].op \in {"getCart", "addToCart"}
                 /\ req[r].user = u
                 /\ req[r].pc = "createCart"
                 /\ req'[r] # req[r]]_vars

\* two first requests of u2 ran at the same time: one created the cart, the
\* other's insert was rejected, and u2 has one cart
SecondCartRejected ==
  \E r1, r2 \in Slots :
    /\ r1 # r2
    /\ req[r1].user = "u2" /\ req[r2].user = "u2"
    /\ req[r1].op \in {"getCart", "addToCart"}
    /\ req[r2].op \in {"getCart", "addToCart"}
    /\ req[r1].pc = "done" /\ req[r2].pc = "done"
    /\ req[r1].resp = "200"
    /\ req[r2].resp = "500"
    /\ faults = 0
    /\ ~carts0["u2"].exists
    /\ carts["u2"].exists
    /\ carts["u2"].extra = 0

PricingRule ==
  \A k \in 1..Len(orders) :
    LET s == orders[k].orderSummary
    IN /\ 100 * s.tax = 8 * s.subtotal
       /\ s.shipping = IF s.subtotal > 5000 THEN 0 ELSE 599
       /\ s.discount = 0
       /\ s.total = s.subtotal + s.tax + s.shipping

\* an order of exactly 50.00 that pays shipping and an order above 50.00
\* that does not
ThresholdBothSides ==
  \E k1, k2 \in 1..Len(orders) :
    /\ orders[k1].orderSummary.subtotal = 5000
    /\ orders[k1].orderSummary.shipping = 599
    /\ orders[k1].orderSummary.total = 5000 + 400 + 599
    /\ orders[k2].orderSummary.subtotal > 5000
    /\ orders[k2].orderSummary.shipping = 0

\* what fixCartIssues makes of a list of lines when it reads the catalog as
\* it is in this state
RECURSIVE FixAll(_)
FixAll(items) ==
  IF items = <<>> THEN <<>> ELSE FixItem(Head(items)) \o FixAll(Tail(items))

\* a line validateCart has nothing to report about
LineValid(item) ==
  /\ drugs[item.drug].isActive
  /\ item.quantity <= drugs[item.drug].stock
  /\ item.price = drugs[item.drug].price
  /\ item.subtotal = item.price * item.quantity

\* C32: fixCartIssues postcondition. When the cart.save() of a fixCartIssues
\* call succeeds and the catalog is as the call read it, every line of the
\* stored cart refers to an active product, stores the catalog price, has
\* subtotal = price x quantity and quantity at most the product's stock;
\* the lines of inactive products are gone and the lines that were valid
\* are stored unchanged.
FixCartIssuesPost ==
  [][\A r \in Slots :
       ( /\ CartSaved(r, "fixCartIssues")
         /\ FixAll(req[r].loaded.items) = req[r].cart.items )
       => LET ld == req[r].loaded.items
              st2 == carts'[req[r].user].items
          IN /\ \A j \in 1..Len(st2) : LineValid(st2[j])
             /\ \A i \in 1..Len(ld) :
                  ~drugs[ld[i].drug].isActive
                    => \A j \in 1..Len(st2) : st2[j].drug # ld[i].drug
             /\ \A i \in 1..Len(ld) :
                  LineValid(ld[i]) => \E j \in 1..Len(st2) : st2[j] = ld[i]]_vars

\* C33: admin stock edits do not lose order adjustments. When an updateStock
\* that adds or subtracts n and a createOrder or cancelOrder that adjusts
\* the same product by d are the only two calls and both have finished, the
\* stock is the initial stock with both applied: initial + n + d for add,
\* and for subtract the result of applying the two one after the other in
\* either order, the subtraction never going below 0.
StockEditKeepsAdjustments ==
  \A r1, r2 \in Slots :
    ( /\ started = 2
      /\ faults = 0
      /\ Done(r1, "updateStock")
      /\ req[r1].resp = "200"
      /\ req[r1].operation \in {"add", "subtract"}
      /\ req[r2].pc = "done"
      /\ req[r2].op \in {"createOrder", "cancelOrder"} )
    => LET p == req[r1].drug
           n == req[r1].qty
           d == req[r2].adj[p]
           floor(x) == IF x > 0 THEN x ELSE 0
       IN IF req[r1].operation = "add"
            THEN drugs[p].stock = stock0[p] + n + d
            ELSE drugs[p].stock \in {floor(stock0[p] + d - n), floor(stock0[p] - n) + d}

\* the line's product is active and in stock
Purchasable(item) == drugs[item.drug].isActive /\ drugs[item.drug].stock > 0

RECURSIVE SumCounts(_, _)
SumCounts(byStatus, S) ==
  IF S = {} THEN [count |-> 0, totalAmount |-> 0]
  ELSE LET s == CHOOSE x \in S : TRUE
           rest == SumCounts(byStatus, S \ {s})
       IN [count |-> byStatus[s].count + rest.count,
           totalAmount |-> byStatus[s].totalAmount + rest.totalAmount]

StatisticsConsistent ==
  \A r \in Slots :
    ( /\ Done(r, "getOrderStatistics")
      /\ req[r].resp = "200"
      /\ orders = orders0 )
    => LET sums == SumCounts(req[r].stats.ordersByStatus, Statuses)
       IN /\ sums.count = req[r].stats.totalOrders
          /\ sums.totalAmount = req[r].stats.totalRevenue

\* C37: pagination metadata. In every getMyOrders response, with page >= 1,
\* limit >= 1 and totalItems >= 0: totalPages is the least whole number of
\* pages of size limit that hold totalItems, hasNextPage holds iff page <
\* totalPages, hasPrevPage holds iff page > 1, nextPage is page + 1 when
\* hasNextPage and null otherwise, prevPage is page - 1 when hasPrevPage and
\* null otherwise.
PaginationMetadata ==
  \A r \in Slots :
    (Done(r, "getMyOrders") /\ req[r].resp = "200")
      => LET m == req[r].pagination
             page == req[r].page
             limit == req[r].limit
         IN /\ page >= 1 /\ limit >= 1 /\ m.totalItems >= 0
            /\ m.totalItems = req[r].totalDocs
            /\ m.currentPage = page /\ m.itemsPerPage = limit
            /\ m.totalPages * limit >= m.totalItems
            /\ m.totalPages >= 0
            /\ m.totalPages > 0 => (m.totalPages - 1) * limit < m.totalItems
            /\ m.hasNextPage <=> page < m.totalPages
            /\ m.hasPrevPage <=> page > 1
            /\ m.nextPage = IF m.hasNextPage THEN page + 1 ELSE 0
            /\ m.prevPage = IF m.hasPrevPage THEN page - 1 ELSE 0

\* the first and the last of two pages of one order each have been served
TwoPagesServed ==
  \E r1, r2 \in Slots :
    /\ Done(r1, "getMyOrders") /\ Done(r2, "getMyOrders")
    /\ req[r1].pagination.totalItems = 2 /\ req[r2].pagination.totalItems = 2
    /\ req[r1].limit = 1 /\ req[r2].limit = 1
    /\ req[r1].page = 1 /\ req[r2].page = 2
    /\ req[r1].pagination.totalPages = 2
    /\ req[r1].pagination.hasNextPage /\ req[r1].pagination.nextPage = 2
    /\ ~req[r1].pagination.hasPrevPage
    /\ ~req[r2].pagination.hasNextPage
    /\ req[r2].pagination.hasPrevPage /\ req[r2].pagination.prevPage = 1
    /\ req[r1].got = {2} /\ req[r2].got = {1}

\* C36: every call of createOrder, cancelOrder, updateOrderStatus and of a
\* cart operation eventually produces a response, and exactly one: a call
\* that is running eventually has responded, a call has a response exactly
\* when it has finished, and after its response it takes no further step
\* but to free its worker.
EveryCallResponds ==
  /\ \A r \in Slots : (req[r].pc \notin {"idle", "done"}) ~> (req[r].pc = "done")
  /\ [](\A r \in Slots : req[r].resp # "none" <=> req[r].pc = "done")
  /\ [][\A r \in Slots :
          req[r].pc = "done" => (req'[r] = req[r] \/ req'[r] = IdleReq)]_vars

\* a checkout, a cancellation and a cart call have each been answered
CallsAnswered ==
  \E r1, r2 \in Slots :
    /\ r1 # r2
    /\ Done(r1, "cancelOrder")
    /\ req[r1].resp = "200"
    /\ req[r2].pc = "done"
    /\ req[r2].op \in {"addToCart", "updateCartItem", "removeFromCart", "clearCart",
                       "fixCartIssues", "getCart", "validateCart", "createOrder"}
    /\ req[r2].resp # "none"

====
